---- MODULE Spec2Model ----
(***************************************************************************)
(* A model of the snapshot collector of syncthing-dashboard               *)
(* (internal/collector): the Collector's refresh loop, its fallback and    *)
(* staleness policy, the reader accessors Snapshot()/Ready(), and the      *)
(* snapshot builder (collect, currentRates, deriveAlerts, health counts).  *)
(*                                                                         *)
(* Conventions.                                                            *)
(*  - A Go string is a sequence of atoms; the atom " " is white space, so  *)
(*    strings.TrimSpace and the byte-wise order of < are computed, not     *)
(*    assumed.                                                             *)
(*  - A Go pointer (to string, float64 or time.Time) is None or Some(v).  *)
(*  - A time.Time is an integer number of clock units; 0 is the zero Time. *)
(*  - A float64 rate is an exact fraction [n, d] in lowest terms.          *)
(*  - A Go map is a function; a missing key reads as the zero value.       *)
(***************************************************************************)
EXTENDS Integers, Sequences, FiniteSets, TLC

VARIABLES
    now,          \* the wall clock (time.Now), in clock units
    reachable,    \* whether the upstream answers a call made at this moment
    cancelled,    \* whether the context given to Start has been cancelled
    c,            \* the Collector's fields guarded by mu, and its rate sample
    mu,           \* the sync.RWMutex: writer holding, writer waiting, readers holding
    cyc,          \* per goroutine (Start's caller, the loop): the position in refresh and its locals
    ticker,       \* the time.Ticker: active, and whether a tick waits in its channel
    rd,           \* per reader: the position in Snapshot()/Ready() and its locals
    hist,         \* history: outcome of the refreshes that have completed, the last
                  \* snapshot a refresh collected and the connection totals it found
    client,       \* the syncthing Client: the getJSON call in progress and the requests sent
    api,          \* the HTTP API: the request being handled and the status written
    conf,         \* the environment given to config.Load and what Load returned
    demo          \* the demo Collector: its fields guarded by mu

vars == <<now, reachable, cancelled, c, mu, cyc, ticker, rd, hist, client, api, conf, demo>>

\* the components beside the live collector
others == <<client, api, conf, demo>>

-----------------------------------------------------------------------------
(* Bounds of the model *)

\* c.pollInterval, in clock units (config.Load rejects values <= 0)
PollInterval == 1
\* the clock runs from 1 to MaxTime: far enough for a snapshot to age past 2 x pollInterval
MaxTime == 4
\* clock units per second (time.Duration.Seconds)
UnitsPerSecond == 10

-----------------------------------------------------------------------------
(* Go values *)

None == [some |-> FALSE]
Some(v) == [some |-> TRUE, val |-> v]

Space == " "
EmptyStr == <<>>
S(a) == <<a>>

RECURSIVE TrimLeft(_)
TrimLeft(s) ==
    IF s # <<>> /\ Head(s) = Space THEN TrimLeft(Tail(s)) ELSE s

RECURSIVE TrimRight(_)
TrimRight(s) ==
    IF s # <<>> /\ s[Len(s)] = Space THEN TrimRight(SubSeq(s, 1, Len(s) - 1)) ELSE s

\* strings.TrimSpace
TrimSpace(s) == TrimRight(TrimLeft(s))

\* the byte value of the atoms that occur in labels, names and identifiers
Byte(a) ==
    CASE a = " " -> 32
      [] a = "-" -> 45
      [] a = "1" -> 49
      [] a = "2" -> 50
      [] a = "A" -> 65
      [] a = "B" -> 66
      [] a = "D" -> 68
      [] a = "K" -> 75
      [] a = "L" -> 76
      [] a = "M" -> 77
      [] a = "P" -> 80
      [] a = "R" -> 82
      [] a = "T" -> 84
      [] a = "V" -> 86
      [] a = "a" -> 97
      [] a = "b" -> 98
      [] a = "c" -> 99
      [] a = "d" -> 100
      [] a = "e" -> 101
      [] a = "g" -> 103
      [] a = "i" -> 105
      [] a = "j" -> 106
      [] a = "k" -> 107
      [] a = "l" -> 108
      [] a = "m" -> 109
      [] a = "n" -> 110
      [] a = "o" -> 111
      [] a = "p" -> 112
      [] a = "r" -> 114
      [] a = "s" -> 115
      [] a = "t" -> 116
      [] a = "u" -> 117
      [] a = "w" -> 119
      [] a = "x" -> 120
      [] a = "y" -> 121

\* the < of two Go strings: byte-wise lexicographic
RECURSIVE StrLess(_, _)
StrLess(s, t) ==
    IF t = <<>> THEN FALSE
    ELSE IF s = <<>> THEN TRUE
    ELSE IF Byte(Head(s)) < Byte(Head(t)) THEN TRUE
    ELSE IF Byte(Head(s)) > Byte(Head(t)) THEN FALSE
    ELSE StrLess(Tail(s), Tail(t))

\* strings.Join(parts, " ")
RECURSIVE JoinSpace(_)
JoinSpace(parts) ==
    IF parts = <<>> THEN <<>>
    ELSE IF Len(parts) = 1 THEN parts[1]
    ELSE parts[1] \o <<Space>> \o JoinSpace(Tail(parts))

\* m[k] of a Go map: the zero value when the key is missing
Lookup(m, k, zero) == IF k \in DOMAIN m THEN m[k] ELSE zero

RECURSIVE Gcd(_, _)
Gcd(a, b) == IF b = 0 THEN a ELSE Gcd(b, a % b)

Abs(x) == IF x < 0 THEN -x ELSE x

\* the float64 quotient n / d (d > 0), as a fraction in lowest terms
Frac(n, d) ==
    LET g == Gcd(Abs(n), d)
    IN  [n |-> n \div g, d |-> d \div g]

FracPositive(f) == f.n > 0

-----------------------------------------------------------------------------
(* Upstream payloads (internal/syncthing) and their zero values *)

ZeroTotals == [InBytesTotal |-> 0, OutBytesTotal |-> 0, BitsPerSecondIn |-> 0, BitsPerSecondOut |-> 0]
ZeroConnection == [Address |-> "", Connected |-> FALSE, InBytesTotal |-> 0, OutBytesTotal |-> 0]
\* a timestamp string: the layout it is written in and the instant it denotes
ZeroTimeStr == [layout |-> "", t |-> 0]
ZeroDeviceStats == [LastSeen |-> ZeroTimeStr]
ZeroFolderStats == [LastScan |-> ZeroTimeStr]
ZeroDBStatus ==
    [GlobalFiles |-> 0, LocalFiles |-> 0, LocalDirectories |-> 0, GlobalBytes |-> 0,
     LocalBytes |-> 0, NeedBytes |-> 0, NeedTotalItems |-> 0,
     ReceiveOnlyTotalItems |-> 0, State |-> EmptyStr]
ZeroDBCompletion == [Completion |-> 0, NeedBytes |-> 0, NeedItems |-> 0, GlobalBytes |-> 0]
ZeroSystemStatus ==
    [MyID |-> EmptyStr, Uptime |-> 0, ConnectionServiceStatus |-> <<>>,
     DiscoveryStatus |-> <<>>, DiscoveryMethods |-> 0, DiscoveryErrors |-> <<>>]
ZeroVersion == [Version |-> EmptyStr, OS |-> EmptyStr, Arch |-> EmptyStr]
ZeroConnections == [Total |-> ZeroTotals, Connections |-> <<>>]
ZeroConfig == [Devices |-> <<>>, Folders |-> <<>>]

-----------------------------------------------------------------------------
(* The dashboard model (internal/model) *)

ZeroDevice ==
    [Name |-> EmptyStr, ID |-> EmptyStr, Version |-> EmptyStr, UptimeS |-> 0,
     DownloadBPS |-> Frac(0, 1), UploadBPS |-> Frac(0, 1),
     LocalFilesTotal |-> 0, LocalDirsTotal |-> 0, LocalBytesTotal |-> 0,
     ListenersOK |-> 0, ListenersTotal |-> 0, DiscoveryOK |-> 0, DiscoveryTotal |-> 0]

\* model.DashboardSnapshot{}: what the struct holds before anything is assigned
ZeroSnapshot ==
    [GeneratedAt |-> 0, SourceOnline |-> FALSE, SourceError |-> None,
     Device |-> ZeroDevice, Folders |-> <<>>, Remotes |-> <<>>, Alerts |-> <<>>,
     Stale |-> FALSE]

-----------------------------------------------------------------------------
(* The snapshot builder *)

\* parseSyncthingTime: a blank or unparseable value is nil, a value in one of
\* the three accepted layouts is its instant in UTC
AcceptedLayouts == {"RFC3339Nano", "RFC3339", "2006-01-02T15:04:05.999999999Z0700"}
parseSyncthingTime(value) ==
    IF value.layout \in AcceptedLayouts THEN Some(value.t) ELSE None

\* sort.Slice on a slice of fewer than 12 elements is an insertion sort
RECURSIVE InsertByLabel(_, _)
InsertByLabel(sorted, x) ==
    IF sorted = <<>> \/ ~StrLess(x.Label, sorted[Len(sorted)].Label)
    THEN Append(sorted, x)
    ELSE Append(InsertByLabel(SubSeq(sorted, 1, Len(sorted) - 1), x), sorted[Len(sorted)])

RECURSIVE SortByLabelFrom(_, _)
SortByLabelFrom(sorted, rest) ==
    IF rest = <<>> THEN sorted
    ELSE SortByLabelFrom(InsertByLabel(sorted, Head(rest)), Tail(rest))

\* folders left in configuration order
FoldersUnsorted(folders) == folders

SortFolders(folders) == SortByLabelFrom(<<>>, folders)

RECURSIVE InsertByName(_, _)
InsertByName(sorted, x) ==
    IF sorted = <<>> \/ ~StrLess(x.Name, sorted[Len(sorted)].Name)
    THEN Append(sorted, x)
    ELSE Append(InsertByName(SubSeq(sorted, 1, Len(sorted) - 1), x), sorted[Len(sorted)])

RECURSIVE SortByNameFrom(_, _)
SortByNameFrom(sorted, rest) ==
    IF rest = <<>> THEN sorted
    ELSE SortByNameFrom(InsertByName(sorted, Head(rest)), Tail(rest))

SortRemotes(remotes) == SortByNameFrom(<<>>, remotes)

\* the local device's display name: the configured name of the first device
\* whose id is the local id, when that name is not blank
RECURSIVE LocalName(_, _)
LocalName(devices, localID) ==
    IF devices = <<>> THEN localID
    ELSE IF Head(devices).DeviceID = localID
         THEN (IF TrimSpace(Head(devices).Name) # EmptyStr THEN Head(devices).Name ELSE localID)
         ELSE LocalName(Tail(devices), localID)

\* a folder state in which the DB status overrides the pause
FolderStateStatusWins(folder, dbStatus) ==
    LET trimmed == TrimSpace(dbStatus.State)
    IN  IF trimmed # EmptyStr THEN trimmed
        ELSE IF folder.Paused THEN S("paused") ELSE S("unknown")

\* a folder state that keeps the white space around the DB-status state
FolderStateUntrimmed(folder, dbStatus) ==
    LET state == IF dbStatus.State = EmptyStr THEN S("unknown") ELSE dbStatus.State
    IN  IF folder.Paused THEN S("paused") ELSE state

\* the state of a folder: the trimmed DB-status state, unknown when blank,
\* paused when the configuration says so
FolderState(folder, dbStatus) ==
    LET trimmed == TrimSpace(dbStatus.State)
        state == IF trimmed = EmptyStr THEN S("unknown") ELSE trimmed
    IN  IF folder.Paused THEN S("paused") ELSE state

\* a need that is published as the completion endpoint reports it
NoClamp(x) == x

ClampZero(x) == IF x < 0 THEN 0 ELSE x

\* a need taken from the DB status
FolderNeedFromStatus(dbStatus, completion) ==
    [items |-> ClampZero(dbStatus.NeedTotalItems), bytes |-> ClampZero(dbStatus.NeedBytes)]

\* needItems and needBytes: the completion's, not below zero
FolderNeed(dbStatus, completion) ==
    [items |-> ClampZero(completion.NeedItems), bytes |-> ClampZero(completion.NeedBytes)]

\* a global size that is the DB status's whatever the completion says
GlobalBytesFromStatus(dbStatus, completion) == dbStatus.GlobalBytes

\* globalBytes: the DB status's, or the completion's when that is larger
FolderGlobalBytes(dbStatus, completion) ==
    IF completion.GlobalBytes > dbStatus.GlobalBytes
    THEN completion.GlobalBytes ELSE dbStatus.GlobalBytes

\* a completion percentage forced into the range
CompletionPctClamped(completion) ==
    Some(IF completion.Completion < 0 THEN 0
         ELSE IF completion.Completion > 100 THEN 100 ELSE completion.Completion)

\* completionPct: nil unless the completion lies within 0 and 100
FolderCompletionPct(completion) ==
    IF completion.Completion >= 0 /\ completion.Completion <= 100
    THEN Some(completion.Completion) ELSE None

\* one element of folders, from a folder's configuration and its two DB responses
FolderStatus(folder, dbStatus, completion, folderStats) ==
    [ID |-> folder.ID,
     Label |-> IF TrimSpace(folder.Label) = EmptyStr THEN folder.ID ELSE folder.Label,
     Path |-> folder.Path,
     State |-> FolderState(folder, dbStatus),
     GlobalFiles |-> dbStatus.GlobalFiles,
     LocalFiles |-> dbStatus.LocalFiles,
     GlobalBytes |-> FolderGlobalBytes(dbStatus, completion),
     LocalBytes |-> dbStatus.LocalBytes,
     NeedItems |-> FolderNeed(dbStatus, completion).items,
     NeedBytes |-> FolderNeed(dbStatus, completion).bytes,
     LocalChangesItems |-> dbStatus.ReceiveOnlyTotalItems,
     CompletionPct |-> FolderCompletionPct(completion),
     LastScanAt |-> IF folder.ID \in DOMAIN folderStats
                    THEN parseSyncthingTime(folderStats[folder.ID].LastScan) ELSE None]

\* one element of remotes, from a configured device
RemoteStatus(deviceCfg, connections, deviceStats) ==
    LET conn == Lookup(connections.Connections, deviceCfg.DeviceID, ZeroConnection)
        deviceStat == Lookup(deviceStats, deviceCfg.DeviceID, ZeroDeviceStats)
    IN  [ID |-> deviceCfg.DeviceID,
         Name |-> IF TrimSpace(deviceCfg.Name) = EmptyStr THEN deviceCfg.DeviceID ELSE deviceCfg.Name,
         Connected |-> conn.Connected,
         Address |-> conn.Address,
         LastSeenAt |-> parseSyncthingTime(deviceStat.LastSeen),
         InBytesTotal |-> conn.InBytesTotal,
         OutBytesTotal |-> conn.OutBytesTotal]

\* remotes that include the local device
RemotesIncludingLocal(devices, localID, connections, deviceStats) ==
    [i \in 1..Len(devices) |-> RemoteStatus(devices[i], connections, deviceStats)]

\* the configured devices other than the local one, in configuration order
RECURSIVE RemotesOf(_, _, _, _)
RemotesOf(devices, localID, connections, deviceStats) ==
    IF devices = <<>> THEN <<>>
    ELSE IF Head(devices).DeviceID = localID
         THEN RemotesOf(Tail(devices), localID, connections, deviceStats)
         ELSE <<RemoteStatus(Head(devices), connections, deviceStats)>>
              \o RemotesOf(Tail(devices), localID, connections, deviceStats)

\* serviceHealthCount: <<ok, total>> over a map of service statuses
serviceHealthCount(statusByKey) ==
    LET total == Cardinality(DOMAIN statusByKey)
        okKeys == {k \in DOMAIN statusByKey :
                     ~statusByKey[k].Error.some \/ TrimSpace(statusByKey[k].Error.val) = EmptyStr}
    IN  IF total = 0 THEN <<0, 0>> ELSE <<Cardinality(okKeys), total>>

\* a discovery health that subtracts every discovery error from the methods
discoveryHealthCountUncapped(status) ==
    LET h == serviceHealthCount(status.DiscoveryStatus)
        errorCount == Cardinality(DOMAIN status.DiscoveryErrors)
    IN  IF h[2] > 0 THEN h
        ELSE IF status.DiscoveryMethods <= 0 THEN <<0, 0>>
        ELSE <<status.DiscoveryMethods - errorCount, status.DiscoveryMethods>>

\* discoveryHealthCount: the per-method map when it is not empty, else the
\* method count less the (capped) number of discovery errors
discoveryHealthCount(status) ==
    LET h == serviceHealthCount(status.DiscoveryStatus)
        errorCount == Cardinality(DOMAIN status.DiscoveryErrors)
        capped == IF errorCount > status.DiscoveryMethods THEN status.DiscoveryMethods ELSE errorCount
    IN  IF h[2] > 0 THEN h
        ELSE IF status.DiscoveryMethods <= 0 THEN <<0, 0>>
        ELSE <<status.DiscoveryMethods - capped, status.DiscoveryMethods>>

RemoteAlert(remote) ==
    [Severity |-> "critical", Code |-> "REMOTE_DISCONNECTED",
     Message |-> <<"Remote device ", remote.Name, " is disconnected">>, SubjectID |-> remote.ID]

FolderErrorAlert(folder) ==
    [Severity |-> "critical", Code |-> "FOLDER_ERROR",
     Message |-> <<"Folder ", folder.Label, " reports error state">>, SubjectID |-> folder.ID]

FolderOutOfSyncAlert(folder) ==
    [Severity |-> "warn", Code |-> "FOLDER_OUT_OF_SYNC",
     Message |-> <<"Folder ", folder.Label, " has pending sync items">>, SubjectID |-> folder.ID]

RECURSIVE RemoteAlerts(_)
RemoteAlerts(remotes) ==
    IF remotes = <<>> THEN <<>>
    ELSE (IF Head(remotes).Connected THEN <<>> ELSE <<RemoteAlert(Head(remotes))>>)
         \o RemoteAlerts(Tail(remotes))

\* folder alerts in which an error does not exclude the out-of-sync alert
RECURSIVE FolderAlertsNotExclusive(_)
FolderAlertsNotExclusive(folders) ==
    IF folders = <<>> THEN <<>>
    ELSE (IF Head(folders).State = S("error") THEN <<FolderErrorAlert(Head(folders))>> ELSE <<>>)
         \o (IF Head(folders).NeedItems > 0 \/ Head(folders).NeedBytes > 0
             THEN <<FolderOutOfSyncAlert(Head(folders))>> ELSE <<>>)
         \o FolderAlertsNotExclusive(Tail(folders))

RECURSIVE FolderAlerts(_)
FolderAlerts(folders) ==
    IF folders = <<>> THEN <<>>
    ELSE (IF Head(folders).State = S("error") THEN <<FolderErrorAlert(Head(folders))>>
          ELSE IF Head(folders).NeedItems > 0 \/ Head(folders).NeedBytes > 0
               THEN <<FolderOutOfSyncAlert(Head(folders))>>
               ELSE <<>>)
         \o FolderAlerts(Tail(folders))

\* alerts derived with the folders' alerts ahead of the remotes'
deriveAlertsFoldersFirst(remotes, folders) == FolderAlerts(folders) \o RemoteAlerts(remotes)

\* deriveAlerts: the remotes' alerts, then the folders'
deriveAlerts(remotes, folders) == RemoteAlerts(remotes) \o FolderAlerts(folders)

\* the collector's rate sample before any sample was taken
ZeroSample == [lastRateAt |-> 0, lastInTotal |-> 0, lastOutTotal |-> 0]

\* a currentRates that takes no elapsed time for one clock unit
currentRatesZeroElapsed(total, at, sample) ==
    LET reported == [down |-> Frac(total.BitsPerSecondIn, 8), up |-> Frac(total.BitsPerSecondOut, 8)]
        taken == [lastRateAt |-> at, lastInTotal |-> total.InBytesTotal,
                  lastOutTotal |-> total.OutBytesTotal]
        elapsed == at - sample.lastRateAt
        inDelta == total.InBytesTotal - sample.lastInTotal
        outDelta == total.OutBytesTotal - sample.lastOutTotal
    IN  IF total.BitsPerSecondIn > 0 \/ total.BitsPerSecondOut > 0
        THEN reported @@ [sample |-> sample]
        ELSE IF sample.lastRateAt = 0
        THEN reported @@ [sample |-> taken]
        ELSE IF elapsed < 0
        THEN reported @@ [sample |-> sample]
        ELSE IF elapsed = 0
        THEN IF inDelta < 0 \/ outDelta < 0
             THEN reported @@ [sample |-> sample]
             ELSE [down |-> Frac(inDelta * UnitsPerSecond, 1),
                   up |-> Frac(outDelta * UnitsPerSecond, 1), sample |-> sample]
        ELSE IF inDelta < 0 \/ outDelta < 0
        THEN reported @@ [sample |-> taken]
        ELSE [down |-> Frac(inDelta * UnitsPerSecond, elapsed),
              up |-> Frac(outDelta * UnitsPerSecond, elapsed),
              sample |-> taken]

\* a currentRates that divides whatever the deltas are
currentRatesSigned(total, at, sample) ==
    LET reported == [down |-> Frac(total.BitsPerSecondIn, 8), up |-> Frac(total.BitsPerSecondOut, 8)]
        taken == [lastRateAt |-> at, lastInTotal |-> total.InBytesTotal,
                  lastOutTotal |-> total.OutBytesTotal]
        elapsed == at - sample.lastRateAt
    IN  IF total.BitsPerSecondIn > 0 \/ total.BitsPerSecondOut > 0
        THEN reported @@ [sample |-> sample]
        ELSE IF sample.lastRateAt = 0
        THEN reported @@ [sample |-> taken]
        ELSE IF elapsed <= 0
        THEN reported @@ [sample |-> sample]
        ELSE [down |-> Frac((total.InBytesTotal - sample.lastInTotal) * UnitsPerSecond, elapsed),
              up |-> Frac((total.OutBytesTotal - sample.lastOutTotal) * UnitsPerSecond, elapsed),
              sample |-> taken]

\* currentRates: the two rates, and the rate sample it leaves behind
currentRates(total, at, sample) ==
    LET reported == [down |-> Frac(total.BitsPerSecondIn, 8), up |-> Frac(total.BitsPerSecondOut, 8)]
        taken == [lastRateAt |-> at, lastInTotal |-> total.InBytesTotal,
                  lastOutTotal |-> total.OutBytesTotal]
        elapsed == at - sample.lastRateAt
        inDelta == total.InBytesTotal - sample.lastInTotal
        outDelta == total.OutBytesTotal - sample.lastOutTotal
    IN  IF total.BitsPerSecondIn > 0 \/ total.BitsPerSecondOut > 0
        THEN reported @@ [sample |-> sample]
        ELSE IF sample.lastRateAt = 0
        THEN reported @@ [sample |-> taken]
        ELSE IF elapsed <= 0
        THEN reported @@ [sample |-> sample]
        ELSE IF inDelta < 0 \/ outDelta < 0
        THEN reported @@ [sample |-> taken]
        ELSE [down |-> Frac(inDelta * UnitsPerSecond, elapsed),
              up |-> Frac(outDelta * UnitsPerSecond, elapsed),
              sample |-> taken]

-----------------------------------------------------------------------------
(* One collection cycle: the upstream calls of collect, in order *)

\* calls 1..6 are the fixed endpoints; then one DB status per configured
\* folder, then (after the rate computation) one DB completion per folder
FixedCalls ==
    <<"/rest/system/status", "/rest/system/version", "/rest/system/connections",
      "/rest/stats/device", "/rest/stats/folder", "/rest/config">>
NumFixed == Len(FixedCalls)

\* the responses a cycle holds: a call in cy.miss left its zero value behind
StatusOf(cy) == IF 1 \in cy.miss THEN ZeroSystemStatus ELSE cy.up.status
VersionOf(cy) == IF 2 \in cy.miss THEN ZeroVersion ELSE cy.up.version
ConnectionsOf(cy) == IF 3 \in cy.miss THEN ZeroConnections ELSE cy.up.connections
DeviceStatsOf(cy) == IF 4 \in cy.miss THEN <<>> ELSE cy.up.deviceStats
FolderStatsOf(cy) == IF 5 \in cy.miss THEN <<>> ELSE cy.up.folderStats
ConfigOf(cy) == IF 6 \in cy.miss THEN ZeroConfig ELSE cy.up.config

NumFolders(cy) == Len(ConfigOf(cy).Folders)
\* the last call before currentRates, and the last call of the cycle
LastStatusCall(cy) == NumFixed + NumFolders(cy)
LastCall(cy) == NumFixed + 2 * NumFolders(cy)

CallPath(cy, k) ==
    IF k <= NumFixed THEN FixedCalls[k]
    ELSE IF k <= LastStatusCall(cy) THEN "/rest/db/status"
    ELSE "/rest/db/completion"

\* the folder a per-folder call is about
CallFolder(cy, k) ==
    IF k <= LastStatusCall(cy) THEN ConfigOf(cy).Folders[k - NumFixed]
    ELSE ConfigOf(cy).Folders[k - LastStatusCall(cy)]

\* err.Error() of the error collect returns when call k fails
CallError(cy, k) ==
    IF k <= NumFixed THEN <<"request ", CallPath(cy, k)>>
    ELSE IF k <= LastStatusCall(cy)
         THEN <<"get db status for folder ", CallFolder(cy, k).ID, "request ", CallPath(cy, k)>>
         ELSE <<"get db completion for folder ", CallFolder(cy, k).ID, "request ", CallPath(cy, k)>>

\* a collect that skips a folder whose DB call fails
AbortsOnFixedOnly(cy, k) == k <= NumFixed

\* whether collect returns the error of a failed call k (every call: if err != nil return)
AbortsOn(cy, k) == TRUE

DBStatusOf(cy, i) ==
    IF (NumFixed + i) \in cy.miss THEN ZeroDBStatus
    ELSE cy.up.dbStatus[ConfigOf(cy).Folders[i].ID]

DBCompletionOf(cy, i) ==
    IF (LastStatusCall(cy) + i) \in cy.miss THEN ZeroDBCompletion
    ELSE cy.up.dbCompletion[ConfigOf(cy).Folders[i].ID]

\* dbStatuses: keyed by folder id, a later folder of the same id overwrites
dbStatusesOf(cy) ==
    LET folders == ConfigOf(cy).Folders
        ids == {folders[i].ID : i \in 1..Len(folders)}
        lastIndex(id) == CHOOSE i \in 1..Len(folders) :
                            /\ folders[i].ID = id
                            /\ \A j \in 1..Len(folders) : folders[j].ID = id => j <= i
    IN  [id \in ids |-> DBStatusOf(cy, lastIndex(id))]

RECURSIVE SumOver(_, _, _)
SumOver(m, keys, field) ==
    IF keys = {} THEN 0
    ELSE LET k == CHOOSE x \in keys : TRUE
         IN  m[k][field] + SumOver(m, keys \ {k}, field)

\* the folders of the cycle in configuration order, before sorting
FoldersOf(cy, dbStatuses) ==
    LET folders == ConfigOf(cy).Folders
    IN  [i \in 1..Len(folders) |->
            FolderStatus(folders[i], dbStatuses[folders[i].ID],
                         DBCompletionOf(cy, i), FolderStatsOf(cy))]

\* the snapshot collect returns, from the folders and remotes it has sorted
SnapshotOf(cy, dbStatuses, folders, remotes) ==
    LET status == StatusOf(cy)
        version == VersionOf(cy)
        listeners == serviceHealthCount(status.ConnectionServiceStatus)
        discovery == discoveryHealthCount(status)
        device ==
            [Name |-> LocalName(ConfigOf(cy).Devices, status.MyID),
             ID |-> status.MyID,
             Version |-> TrimSpace(JoinSpace(<<version.Version, version.OS, version.Arch>>)),
             UptimeS |-> status.Uptime,
             DownloadBPS |-> cy.rates.down,
             UploadBPS |-> cy.rates.up,
             LocalFilesTotal |-> SumOver(dbStatuses, DOMAIN dbStatuses, "LocalFiles"),
             LocalDirsTotal |-> SumOver(dbStatuses, DOMAIN dbStatuses, "LocalDirectories"),
             LocalBytesTotal |-> SumOver(dbStatuses, DOMAIN dbStatuses, "LocalBytes"),
             ListenersOK |-> listeners[1], ListenersTotal |-> listeners[2],
             DiscoveryOK |-> discovery[1], DiscoveryTotal |-> discovery[2]]
    IN  [GeneratedAt |-> cy.at, SourceOnline |-> TRUE, SourceError |-> None,
         Device |-> device, Folders |-> folders, Remotes |-> remotes,
         Alerts |-> deriveAlerts(remotes, folders), Stale |-> FALSE]

\* the snapshot collect returns when no call failed (the one element of a
\* set, so that the sorted slices are computed once)
collect(cy) ==
    CHOOSE snapshot \in
        {SnapshotOf(cy, dbStatuses, SortFolders(folders), SortRemotes(remotes)) :
            dbStatuses \in {dbStatusesOf(cy)},
            folders \in {FoldersOf(cy, dbStatusesOf(cy))},
            remotes \in {RemotesOf(ConfigOf(cy).Devices, StatusOf(cy).MyID,
                                   ConnectionsOf(cy), DeviceStatsOf(cy))}} : TRUE

-----------------------------------------------------------------------------
(* refresh: what it publishes *)

SourceUnreachable ==
    [Severity |-> "critical", Code |-> "SOURCE_UNREACHABLE",
     Message |-> <<"Syncthing API is unreachable">>, SubjectID |-> S("syncthing")]

\* a success path that leaves generated_at at the zero time
HealthyUnstamped(snapshot, at) ==
    [snapshot EXCEPT !.GeneratedAt = 0, !.SourceOnline = TRUE,
                     !.SourceError = None, !.Stale = FALSE]

\* the snapshot refresh publishes after a collect without error
Healthy(snapshot, at) ==
    [snapshot EXCEPT !.GeneratedAt = at, !.SourceOnline = TRUE,
                     !.SourceError = None, !.Stale = FALSE]

\* a fallback that keeps the error text of the failure before it
FallbackKeepsFirstError(lastGood, errText) ==
    [lastGood EXCEPT !.SourceOnline = FALSE,
                     !.SourceError = IF c.snapshot.SourceError.some
                                     THEN c.snapshot.SourceError ELSE Some(errText),
                     !.Stale = TRUE, !.Alerts = <<SourceUnreachable>> \o lastGood.Alerts]

\* a fallback that stamps the copy with the time of the failed poll
FallbackRestamped(lastGood, errText) ==
    [lastGood EXCEPT !.GeneratedAt = now, !.SourceOnline = FALSE, !.SourceError = Some(errText),
                     !.Stale = TRUE, !.Alerts = <<SourceUnreachable>> \o lastGood.Alerts]

\* a fallback that puts the alert after the retained ones
FallbackAppendsAlert(lastGood, errText) ==
    [lastGood EXCEPT !.SourceOnline = FALSE, !.SourceError = Some(errText),
                     !.Stale = TRUE, !.Alerts = lastGood.Alerts \o <<SourceUnreachable>>]

\* a fallback that degrades the snapshot currently published
FallbackFromCurrent(lastGood, errText) ==
    [c.snapshot EXCEPT !.SourceOnline = FALSE, !.SourceError = Some(errText),
                       !.Stale = TRUE, !.Alerts = <<SourceUnreachable>> \o c.snapshot.Alerts]

\* the copy of the last-known-good snapshot refresh publishes after a failure
Fallback(lastGood, errText) ==
    [lastGood EXCEPT !.SourceOnline = FALSE, !.SourceError = Some(errText),
                     !.Stale = TRUE, !.Alerts = <<SourceUnreachable>> \o lastGood.Alerts]

\* a cold start that publishes the failure without its alert
ColdStartWithoutAlert(at, errText) ==
    [ZeroSnapshot EXCEPT !.GeneratedAt = at, !.SourceOnline = FALSE,
                         !.SourceError = Some(errText), !.Stale = TRUE]

\* the snapshot refresh publishes after a failure with no last-known-good one
ColdStart(at, errText) ==
    [ZeroSnapshot EXCEPT !.GeneratedAt = at, !.SourceOnline = FALSE,
                         !.SourceError = Some(errText),
                         !.Alerts = <<SourceUnreachable>>, !.Stale = TRUE]

\* an assignment of a snapshot struct is a copy of its fields: these first, ...
HeadFields == {"GeneratedAt", "SourceOnline", "SourceError", "Device"}
\* ... then the remaining ones
CopyHead(dst, src) == [f \in DOMAIN dst |-> IF f \in HeadFields THEN src[f] ELSE dst[f]]
CopyTail(dst, src) == [f \in DOMAIN dst |-> IF f \in HeadFields THEN dst[f] ELSE src[f]]

\* a staleness rule with a threshold of one polling interval
ReadStaleOneInterval(out, t) ==
    \/ out.Stale
    \/ (out.GeneratedAt # 0 /\ t - out.GeneratedAt > PollInterval)
    \/ ~out.SourceOnline

\* Snapshot(): the staleness of the copy it returns, at time t
ReadStale(out, t) ==
    \/ out.Stale
    \/ (out.GeneratedAt # 0 /\ t - out.GeneratedAt > 2 * PollInterval)
    \/ ~out.SourceOnline

-----------------------------------------------------------------------------
(* The upstream the cycles of the state machine poll *)

Ts(layout, t) == [layout |-> layout, t |-> t]
Totals(inBytes, outBytes, bitsIn, bitsOut) ==
    [InBytesTotal |-> inBytes, OutBytesTotal |-> outBytes,
     BitsPerSecondIn |-> bitsIn, BitsPerSecondOut |-> bitsOut]
DBStatus(state, globalBytes, localFiles, needBytes, localChanges) ==
    [ZeroDBStatus EXCEPT !.State = state, !.GlobalBytes = globalBytes, !.GlobalFiles = localFiles + 10,
                         !.LocalFiles = localFiles, !.LocalDirectories = 7, !.LocalBytes = 2048,
                         !.NeedBytes = needBytes, !.ReceiveOnlyTotalItems = localChanges]
DBCompletion(completion, needBytes, needItems, globalBytes) ==
    [Completion |-> completion, NeedBytes |-> needBytes, NeedItems |-> needItems,
     GlobalBytes |-> globalBytes]

LocalID == <<"L", "1">>
Remote1 == <<"R", "1">>
Remote2 == <<"R", "2">>
FolderA == <<"a">>
FolderB == <<"b">>

\* The upstream as a cycle that begins at time t finds it.  Its uptime and its
\* cumulative counters grow with time; it reports a rate only at first; remote
\* R1 connects and disconnects, remote R2 is configured but has no connection;
\* folder b (listed first) gets paused while it syncs; folder a (blank label)
\* is in error for a while and its need runs down to below zero.
UpstreamAt(t) ==
    [status |-> [MyID |-> LocalID, Uptime |-> 120 + t,
                 ConnectionServiceStatus |-> (S("tcp") :> [Error |-> None]) @@
                                             (S("quic") :> [Error |-> Some(S("bind failed"))]),
                 DiscoveryStatus |-> IF t % 2 = 1
                                     THEN (S("global") :> [Error |-> None]) @@
                                          (S("local") :> [Error |-> Some(<<Space>>)])
                                     ELSE <<>>,
                 DiscoveryMethods |-> 3, DiscoveryErrors |-> (S("global") :> S("timeout"))],
     version |-> [Version |-> S("v2.0.1"), OS |-> S("linux"), Arch |-> EmptyStr],
     connections |-> [Total |-> IF t = 1 THEN Totals(100, 200, 8000, 4000)
                                ELSE Totals(1000 + 600 * t, 2000 + 600 * t, 0, 0),
                      Connections |-> (Remote1 :> [Address |-> "tcp://10.0.0.5:22000",
                                                   Connected |-> (t % 2 = 0),
                                                   InBytesTotal |-> 100 * t, OutBytesTotal |-> 200 * t])],
     deviceStats |-> (Remote1 :> [LastSeen |-> Ts("RFC3339Nano", t)]) @@
                     (Remote2 :> [LastSeen |-> Ts("unparseable", t)]),
     folderStats |-> (FolderA :> [LastScan |-> Ts("RFC3339", t)]),
     config |-> [Devices |-> <<[DeviceID |-> Remote2, Name |-> <<Space>>],
                               [DeviceID |-> LocalID, Name |-> <<"c">>],
                               [DeviceID |-> Remote1, Name |-> <<"B">>]>>,
                 Folders |-> <<[ID |-> FolderB, Label |-> <<"b">>, Path |-> "/mnt/b", Paused |-> (t >= 3)],
                               [ID |-> FolderA, Label |-> EmptyStr, Path |-> "/mnt/a", Paused |-> FALSE]>>],
     dbStatus |-> (FolderB :> DBStatus(S("syncing"), 100, 5, 10, 0)) @@
                  (FolderA :> DBStatus(IF t = 2 THEN <<Space, "error", Space>> ELSE S("idle"),
                                       4096, 20, 2048, 3)),
     dbCompletion |-> (FolderB :> DBCompletion(IF t % 2 = 1 THEN 8 ELSE 101, 0, 0, 50)) @@
                      (FolderA :> DBCompletion(100 - 10 * t, 3072 - 1024 * t, 12 - 4 * t, 8000))]

-----------------------------------------------------------------------------
(* The syncthing client: getJSON and what it puts on the wire *)

\* var allowedReadPaths = map[string]struct{}{...}
allowedReadPaths ==
    {"/rest/system/status", "/rest/system/version", "/rest/system/connections",
     "/rest/stats/device", "/rest/stats/folder", "/rest/config",
     "/rest/db/status", "/rest/db/completion"}

\* a guard that lets every path through
AnyPathAllowed(path) == TRUE

\* _, ok := allowedReadPaths[path]
PathAllowed(path) == path \in allowedReadPaths

\* the paths getJSON is called with: those of the eight Get methods, and
\* paths no Get method uses (a write endpoint, a sub-path, a near miss of an
\* allowed path, the empty path)
ClientPaths ==
    allowedReadPaths \cup
    {"/rest/system/restart", "/rest/db/scan", "/rest/config/folders", "/rest/config/", ""}

\* GetDBStatus and GetDBCompletion pass query.Set("folder", folderID); the other
\* callers pass nil. url.Values is the sequence of its key and value pairs
QueryFor(path) ==
    IF path \in {"/rest/db/status", "/rest/db/completion"}
    THEN <<<<"folder", "docs">>>> ELSE <<>>

\* http.MethodGet
MethodGet == "GET"

\* the request http.NewRequestWithContext builds, with the header getJSON sets
NewRequest(cl, path, query) ==
    [Method |-> MethodGet, Path |-> path, Query |-> query, APIKey |-> cl.apiKey]

\* the errors getJSON returns, as err.Error()
NotAllowedError(path) == <<"path ", path, " is not allowed in read-only mode">>
BuildError(path) == <<"build request ", path>>
RequestError(path) == <<"request ", path>>
StatusError(path, code) == <<"request ", path, " failed with status ", ToString(code)>>
DecodeError(path) == <<"decode response ", path>>

\* what http.Client.Do and the decoding can come to: a transport error, a
\* status outside 2xx, a body that is not the expected JSON, or a response
DoOutcomes ==
    {[kind |-> "transport", code |-> 0]} \cup
    {[kind |-> "garbled", code |-> 200]} \cup
    {[kind |-> "response", code |-> code] : code \in {199, 200, 204, 300, 500}}

\* NewClient: the base URL may be one NewRequestWithContext cannot parse
NewClient(baseOK) ==
    [pc |-> "idle", baseOK |-> baseOK, apiKey |-> S("secret"),
     path |-> "", err |-> None, sent |-> {}]
IdleClient == NewClient(TRUE)

\* getJSON up to c.http.Do(req): the allow-list check, the request built and sent
GetJSON(path) ==
    /\ client.pc = "idle"
    /\ client' =
         IF ~PathAllowed(path)
         THEN [client EXCEPT !.path = path, !.err = Some(NotAllowedError(path))]
         ELSE IF ~client.baseOK
         THEN [client EXCEPT !.path = path, !.err = Some(BuildError(path))]
         ELSE [client EXCEPT !.pc = "sent", !.path = path, !.err = None,
                             !.sent = @ \cup {NewRequest(client, path, QueryFor(path))}]
    /\ UNCHANGED <<now, reachable, cancelled, c, mu, cyc, ticker, rd, hist, api, conf, demo>>

\* getJSON from the return of c.http.Do(req) to its own return
DoReturns(outcome) ==
    /\ client.pc = "sent"
    /\ client' = [client EXCEPT
                    !.pc = "idle",
                    !.err = IF outcome.kind = "transport" THEN Some(RequestError(client.path))
                            ELSE IF outcome.code < 200 \/ outcome.code >= 300
                                 THEN Some(StatusError(client.path, outcome.code))
                            ELSE IF outcome.kind = "garbled" THEN Some(DecodeError(client.path))
                            ELSE None]
    /\ UNCHANGED <<now, reachable, cancelled, c, mu, cyc, ticker, rd, hist, api, conf, demo>>

-----------------------------------------------------------------------------
(* The state machine *)

\* the HTTP API between requests: the last request served, the status written
\* for it (0: none yet), and whether the handler called the reader
IdleApi == [pc |-> "idle", method |-> "", path |-> "", status |-> 0, consulted |-> FALSE]
(* config.Load: the environment, and the Config or error it returns.
   Durations are in milliseconds. *)

Second == 1000

\* a URL is its tokens: <<scheme, "://", host, path...>>; url.Parse finds a
\* scheme only before "://", and no host in a text without one
UrlParse(s) ==
    IF \E i \in 1..Len(s) : s[i] = Space THEN [err |-> TRUE, Scheme |-> "", Host |-> "", Path |-> <<>>]
    ELSE IF Len(s) >= 2 /\ s[2] = "://"
         THEN [err |-> FALSE, Scheme |-> s[1],
               Host |-> IF Len(s) >= 3 /\ s[3] # "/" THEN s[3] ELSE "",
               Path |-> IF Len(s) >= 3 /\ s[3] # "/" THEN SubSeq(s, 4, Len(s)) ELSE SubSeq(s, 3, Len(s))]
         ELSE [err |-> FALSE, Scheme |-> "", Host |-> "", Path |-> s]

\* (*url.URL).String() of a URL with a scheme
UrlString(u) == <<u.Scheme, "://">> \o (IF u.Host = "" THEN <<>> ELSE <<u.Host>>) \o u.Path

\* strings.TrimRight(s, "/")
RECURSIVE TrimRightSlash(_)
TrimRightSlash(s) ==
    IF s # <<>> /\ s[Len(s)] = "/" THEN TrimRightSlash(SubSeq(s, 1, Len(s) - 1)) ELSE s

\* the numerals and units that occur in the durations drawn
NumeralValue == ("0" :> 0) @@ ("2" :> 2) @@ ("3" :> 3) @@ ("5" :> 5)
UnitMs == ("ms" :> 1) @@ ("s" :> Second) @@ ("m" :> 60 * Second)

\* a number text without its sign, and the sign
Unsigned(v) == IF v # <<>> /\ v[1] = "-" THEN Tail(v) ELSE v
SignOf(v) == IF v # <<>> /\ v[1] = "-" THEN -1 ELSE 1

\* time.ParseDuration: [-]<number><unit>, or "0" alone
ParseDuration(v) ==
    LET u == Unsigned(v) IN
    IF u = <<"0">> THEN [err |-> FALSE, d |-> 0]
    ELSE IF Len(u) = 2 /\ u[1] \in DOMAIN NumeralValue /\ u[2] \in DOMAIN UnitMs
         THEN [err |-> FALSE, d |-> SignOf(v) * NumeralValue[u[1]] * UnitMs[u[2]]]
         ELSE [err |-> TRUE, d |-> 0]

\* strconv.Atoi: [-]<number>
Atoi(v) ==
    LET u == Unsigned(v) IN
    IF Len(u) = 1 /\ u[1] \in DOMAIN NumeralValue
    THEN [err |-> FALSE, n |-> SignOf(v) * NumeralValue[u[1]]]
    ELSE [err |-> TRUE, n |-> 0]

durationFromEnv(raw, fallback) ==
    LET value == TrimSpace(raw) IN
    IF value = EmptyStr THEN fallback
    ELSE IF ~ParseDuration(value).err THEN ParseDuration(value).d
    ELSE IF ~Atoi(value).err /\ Atoi(value).n >= 0 THEN Atoi(value).n * Second
    ELSE fallback

\* the files os.ReadFile finds: a key followed by a newline, and a blank file
SecretFiles == (<<"/run/key">> :> <<"f", Space>>) @@ (<<"/run/blank">> :> <<Space, Space>>)

\* loadAPIKey: the key, or an error
loadAPIKey(env) ==
    IF TrimSpace(env.APIKey) # EmptyStr THEN [err |-> FALSE, key |-> TrimSpace(env.APIKey)]
    ELSE LET secretPath == TrimSpace(env.APIKeyFile) IN
         IF secretPath = EmptyStr THEN [err |-> TRUE, key |-> EmptyStr]
         ELSE IF secretPath \notin DOMAIN SecretFiles THEN [err |-> TRUE, key |-> EmptyStr]
         ELSE IF TrimSpace(SecretFiles[secretPath]) = EmptyStr THEN [err |-> TRUE, key |-> EmptyStr]
         ELSE [err |-> FALSE, key |-> TrimSpace(SecretFiles[secretPath])]

\* Config{}
ZeroCfg == [STBaseURL |-> EmptyStr, STAPIKey |-> EmptyStr, DemoMode |-> FALSE, PollInterval |-> 0]

\* a check that lets a zero interval through
RejectsNegativeOnly(d) == d < 0

\* if cfg.PollInterval <= 0 { return Config{}, error }
PollIntervalRejected(d) == d <= 0

\* Load: the Config and whether an error is returned
Load(env) ==
    LET baseURL == TrimSpace(env.BaseURL)
        cfg == [ZeroCfg EXCEPT !.DemoMode = (baseURL = EmptyStr),
                               !.PollInterval = durationFromEnv(env.PollInterval, 5 * Second)]
        parsedURL == UrlParse(baseURL)
    IN  IF PollIntervalRejected(cfg.PollInterval) THEN [err |-> TRUE, cfg |-> ZeroCfg]
        ELSE IF cfg.DemoMode THEN [err |-> FALSE, cfg |-> cfg]
        ELSE IF parsedURL.err \/ parsedURL.Scheme = "" \/ parsedURL.Host = ""
             THEN [err |-> TRUE, cfg |-> ZeroCfg]
        ELSE IF loadAPIKey(env).err THEN [err |-> TRUE, cfg |-> ZeroCfg]
        ELSE [err |-> FALSE,
              cfg |-> [cfg EXCEPT !.STBaseURL = TrimRightSlash(UrlString(parsedURL)),
                                  !.STAPIKey = loadAPIKey(env).key]]

\* the environments Load is run in
BaseURLs ==
    {EmptyStr, <<Space, Space>>, <<"http", "://", "localhost:8384">>,
     <<Space, "https", "://", "st", "/", "/", Space>>, <<"localhost:8384">>, <<"http", "://", "/">>,
     <<"http", "://", "a", Space, "b">>}
APIKeys == {EmptyStr, <<Space>>, <<"demo-key">>, <<Space, "k", Space>>}
APIKeyFiles == {EmptyStr, <<"/run/key">>, <<Space, "/run/blank">>, <<"/missing">>}
PollIntervals ==
    {EmptyStr, <<"2">>, <<"2", "s">>, <<Space, "5", "m", Space>>, <<"0">>, <<"0", "s">>,
     <<"-", "5", "s">>, <<"-", "3">>, <<"abc">>}
Envs ==
    [BaseURL : BaseURLs, APIKey : APIKeys, APIKeyFile : APIKeyFiles, PollInterval : PollIntervals]

\* an environment with nothing set
DefaultEnv ==
    [BaseURL |-> EmptyStr, APIKey |-> EmptyStr, APIKeyFile |-> EmptyStr, PollInterval |-> EmptyStr]

\* the process before it calls Load
NotLoaded(env) == [env |-> env, loaded |-> FALSE, err |-> FALSE, cfg |-> ZeroCfg]

\* run: cfg, err := config.Load()
RunLoads ==
    /\ ~conf.loaded
    /\ conf' = [conf EXCEPT !.loaded = TRUE, !.err = Load(conf.env).err, !.cfg = Load(conf.env).cfg]
    /\ UNCHANGED <<now, reachable, cancelled, c, mu, cyc, ticker, rd, hist, client, api, demo>>
(* The demo collector (internal/demo): snapshots computed from a tick counter.
   Byte counts are in MiB, rates in KiB/s. *)

mib == 1
gib == 1024 * mib
Minute == 60 * UnitsPerSecond

\* the refreshes the demo collector is followed through
MaxTick == 46

maxInt64(a, b) == IF a > b THEN a ELSE b

FolderSeed(id, label, mode, globalFiles, globalBytes, baseProgress, speed, localChanges) ==
    [ID |-> S(id), Label |-> S(label), Path |-> "/sync/" \o label, Mode |-> mode,
     GlobalFiles |-> globalFiles, GlobalBytes |-> globalBytes,
     BaseProgress |-> baseProgress, Speed |-> speed, LocalChanges |-> localChanges]

FolderSeeds ==
    <<FolderSeed("folder-pictures", "Pictures", "local", 182, 136 * gib, 100, 0, 9),
      FolderSeed("folder-documents", "Documents", "idle", 96, 42 * gib, 100, 0, 0),
      FolderSeed("folder-media", "Media", "syncing", 214, 328 * gib, 35, 3, 0),
      FolderSeed("folder-music", "Music", "syncing", 484, 78 * gib, 64, 4, 0),
      FolderSeed("folder-videos", "Videos", "error", 33, 512 * gib, 73, 0, 0),
      FolderSeed("folder-downloads", "Downloads", "scanning", 127, 58 * gib, 100, 0, 0),
      FolderSeed("folder-projects", "Projects", "syncing", 71, 24 * gib, 12, 5, 0),
      FolderSeed("folder-backups", "Backups", "paused", 65, 910 * gib, 100, 0, 0),
      FolderSeed("folder-books", "Books", "local", 143, 19 * gib, 100, 0, 3),
      FolderSeed("folder-taxes", "Taxes", "idle", 22, 4 * gib, 100, 0, 0)>>

\* the progress of a syncing folder at a tick
SyncProgress(seed, idx, tick) ==
    LET progress == seed.BaseProgress + ((tick * seed.Speed + idx) % 19)
        capped == IF progress > 96 THEN 96 - ((tick + idx) % 7) ELSE progress
    IN  IF capped < 1 THEN 1 ELSE capped

\* buildFolders: one folder, from its seed, its index and the tick
DemoFolder(seed, idx, at, tick) ==
    LET progress == SyncProgress(seed, idx, tick)
        syncNeedBytes == maxInt64(64 * mib, (seed.GlobalBytes * (100 - progress)) \div 100)
        syncNeedItems == maxInt64(1, (seed.GlobalFiles * (100 - progress)) \div 100)
        errNeedBytes == (seed.GlobalBytes * 28) \div 100
        base == [ID |-> seed.ID, Label |-> seed.Label, Path |-> seed.Path,
                 State |-> S("idle"),
                 GlobalFiles |-> seed.GlobalFiles, LocalFiles |-> seed.GlobalFiles,
                 GlobalBytes |-> seed.GlobalBytes, LocalBytes |-> seed.GlobalBytes,
                 NeedItems |-> 0, NeedBytes |-> 0,
                 LocalChangesItems |-> seed.LocalChanges,
                 CompletionPct |-> Some(100),
                 LastScanAt |-> Some(at - ((idx * 13 + tick) % 170) * Minute)]
    IN  CASE seed.Mode = "syncing" ->
               [base EXCEPT !.State = IF tick % 11 = 0 /\ idx % 2 = 0
                                      THEN S("scan-waiting") ELSE S("syncing"),
                            !.CompletionPct = Some(progress),
                            !.NeedBytes = syncNeedBytes,
                            !.LocalBytes = maxInt64(0, seed.GlobalBytes - syncNeedBytes),
                            !.NeedItems = syncNeedItems,
                            !.LocalFiles = maxInt64(0, seed.GlobalFiles - (syncNeedItems \div 2))]
          [] seed.Mode = "local" ->
               [base EXCEPT !.LocalChangesItems = maxInt64(1, seed.LocalChanges + (tick % 3))]
          [] seed.Mode = "paused" -> [base EXCEPT !.State = S("paused")]
          [] seed.Mode = "scanning" -> [base EXCEPT !.State = S("scan-waiting")]
          [] seed.Mode = "error" ->
               [base EXCEPT !.State = S("error"),
                            !.CompletionPct = Some(72),
                            !.NeedBytes = errNeedBytes,
                            !.NeedItems = maxInt64(3, seed.GlobalFiles \div 4),
                            !.LocalBytes = maxInt64(0, seed.GlobalBytes - errNeedBytes)]
          [] OTHER -> base

buildFolders(at, tick) ==
    [i \in 1..Len(FolderSeeds) |-> DemoFolder(FolderSeeds[i], i - 1, at, tick)]

RemoteSeeds ==
    <<[ID |-> S("ATTIC-DEMO"), Name |-> S("Attic"), Address |-> "192.168.10.24:22000", Mode |-> "up"],
      [ID |-> S("DESK-DEMO"), Name |-> S("Desk"), Address |-> "192.168.10.42:22000", Mode |-> "up"],
      [ID |-> S("BACKPACK-DEMO"), Name |-> S("Backpack"), Address |-> "100.88.14.7:22000", Mode |-> "flap"],
      [ID |-> S("KEYRING-DEMO"), Name |-> S("Keyring"), Address |-> "10.8.0.18:22000", Mode |-> "down"]>>

\* a down remote that comes back now and then
DownReconnects(mode, tick) ==
    IF mode = "down" THEN tick % 5 = 4
    ELSE IF mode = "flap" THEN tick % 7 # 0 /\ tick % 7 # 1
    ELSE TRUE

\* buildRemotes: whether a remote of the given mode is connected at a tick
RemoteConnected(mode, tick) ==
    IF mode = "down" THEN FALSE
    ELSE IF mode = "flap" THEN tick % 7 # 0 /\ tick % 7 # 1
    ELSE TRUE

buildRemotes(at, tick) ==
    [i \in 1..Len(RemoteSeeds) |->
        LET seed == RemoteSeeds[i]
            idx == i - 1
        IN  [ID |-> seed.ID, Name |-> seed.Name,
             Connected |-> RemoteConnected(seed.Mode, tick),
             Address |-> seed.Address,
             LastSeenAt |-> Some(at - ((idx + 1) * ((tick % 5) + 1)) * Minute),
             InBytesTotal |-> (120 + idx * 14) * gib + tick * idx * 41 * mib,
             OutBytesTotal |-> (3 + idx) * gib + tick * idx * 11 * mib]]

\* strings.EqualFold(state, "error"), over the states that occur
FoldsToError(state) == state \in {S("error"), S("Error"), S("ERROR")}

\* buildAlerts: the folders' alerts
RECURSIVE DemoFolderAlerts(_)
DemoFolderAlerts(folders) ==
    IF folders = <<>> THEN <<>>
    ELSE (IF FoldsToError(Head(folders).State) THEN <<FolderErrorAlert(Head(folders))>>
          ELSE IF Head(folders).NeedItems > 0 \/ Head(folders).NeedBytes > 0
               THEN <<FolderOutOfSyncAlert(Head(folders))>>
               ELSE <<>>)
         \o DemoFolderAlerts(Tail(folders))

buildAlerts(remotes, folders) == RemoteAlerts(remotes) \o DemoFolderAlerts(folders)

\* buildDevice: the totals over the folders from the i-th on
RECURSIVE DemoTotal(_, _, _)
DemoTotal(folders, i, field) ==
    IF i > Len(folders) THEN 0
    ELSE (CASE field = "files" -> folders[i].LocalFiles
            [] field = "dirs" -> maxInt64(1, folders[i].LocalFiles \div 2)
            [] OTHER -> folders[i].LocalBytes)
         + DemoTotal(folders, i + 1, field)

buildDevice(at, tick, startAt, pollInterval, folders) ==
    [Name |-> S("Homelab"), ID |-> S("HOMELAB-DEMO"), Version |-> S("v2.0.12 linux amd64"),
     UptimeS |-> ((at - startAt) + tick * pollInterval) \div UnitsPerSecond,
     DownloadBPS |-> Frac((23 + ((tick * 3) % 10)) * 1024, 10),
     UploadBPS |-> Frac(145 + ((tick * 17) % 115), 1),
     LocalFilesTotal |-> DemoTotal(folders, 1, "files"),
     LocalDirsTotal |-> DemoTotal(folders, 1, "dirs"),
     LocalBytesTotal |-> DemoTotal(folders, 1, "bytes"),
     ListenersOK |-> IF tick % 23 >= 19 THEN 1 ELSE 2, ListenersTotal |-> 2,
     DiscoveryOK |-> IF tick % 19 = 0 THEN 3 ELSE 4, DiscoveryTotal |-> 5]

buildSnapshot(at, tick, startAt, pollInterval) ==
    LET folders == buildFolders(at, tick)
        remotes == buildRemotes(at, tick)
    IN  [GeneratedAt |-> at, SourceOnline |-> TRUE, SourceError |-> None,
         Device |-> buildDevice(at, tick, startAt, pollInterval, folders),
         Folders |-> folders, Remotes |-> remotes,
         Alerts |-> buildAlerts(remotes, folders), Stale |-> FALSE]

\* demo.NewCollector, at clock reading `at`: startAt lies 73 hours back
NewDemoCollectorAt(at, pollInterval) ==
    [pollInterval |-> IF pollInterval <= 0 THEN 5 * UnitsPerSecond ELSE pollInterval,
     snapshot |-> ZeroSnapshot, ready |-> FALSE, tick |-> 0,
     startAt |-> at - 73 * 60 * Minute,
     started |-> FALSE, out |-> ZeroSnapshot, ok |-> FALSE]
NewDemoCollector == NewDemoCollectorAt(1, PollInterval)

\* refresh: under the lock, the snapshot of this tick is stored and tick advances
DemoRefreshed ==
    [demo EXCEPT !.snapshot = buildSnapshot(now, demo.tick, demo.startAt, demo.pollInterval),
                 !.ready = TRUE, !.tick = @ + 1]

\* Start: c.refresh(), then the ticker and the loop goroutine
DemoStart ==
    /\ ~demo.started
    /\ demo' = [DemoRefreshed EXCEPT !.started = TRUE]
    /\ UNCHANGED <<now, reachable, cancelled, c, mu, cyc, ticker, rd, hist, client, api, conf>>

\* the loop receives a tick and calls refresh
DemoLoopTick ==
    /\ demo.started /\ ~cancelled
    /\ demo.tick <= MaxTick
    /\ demo' = DemoRefreshed
    /\ UNCHANGED <<now, reachable, cancelled, c, mu, cyc, ticker, rd, hist, client, api, conf>>

\* Snapshot(): under the read lock, unavailable before the first refresh, else
\* a copy marked stale when older than two polling intervals
DemoSnapshot ==
    /\ demo' = IF ~demo.ready
               THEN [demo EXCEPT !.out = ZeroSnapshot, !.ok = FALSE]
               ELSE [demo EXCEPT !.ok = TRUE,
                                 !.out = [demo.snapshot EXCEPT
                                            !.Stale = (now - demo.snapshot.GeneratedAt > 2 * demo.pollInterval)]]
    /\ UNCHANGED <<now, reachable, cancelled, c, mu, cyc, ticker, rd, hist, client, api, conf>>

\* the goroutines that run refresh: Start's caller, and the timer loop
Procs == {"start", "loop"}
Readers == {"r1"}

\* the locals of a goroutine outside refresh
IdleCycle(pc) ==
    [pc |-> pc, at |-> 0, up |-> <<>>, k |-> 0, miss |-> {},
     rates |-> [down |-> Frac(0, 1), up |-> Frac(0, 1)], err |-> None, snap |-> ZeroSnapshot]

\* a reader between calls; `at` is the clock reading of time.Since
IdleReader == [pc |-> "idle", out |-> ZeroSnapshot, ok |-> FALSE, at |-> 0]

InitCollector ==
    /\ now = 1
    /\ reachable \in BOOLEAN
    /\ cancelled = FALSE
    /\ c = [snapshot |-> ZeroSnapshot, hasSnapshot |-> FALSE,
            lastGood |-> ZeroSnapshot, hasLastGood |-> FALSE, sample |-> ZeroSample]
    /\ mu = [writer |-> "none", pending |-> "none", readers |-> {}]
    /\ cyc = [p \in Procs |-> IdleCycle(IF p = "start" THEN "init" ELSE "unborn")]
    /\ ticker = [active |-> FALSE, pending |-> FALSE]
    /\ rd = [r \in Readers |-> IdleReader]
    /\ hist = [last |-> "none", ok |-> None, seen |-> ZeroTotals]

\* the state after construction
Init ==
    /\ InitCollector
    /\ client = IdleClient
    /\ api = IdleApi
    /\ conf = NotLoaded(DefaultEnv)
    /\ demo = NewDemoCollector

(* the environment *)

\* time passes
Tick ==
    /\ now < MaxTime
    /\ now' = now + 1
    /\ UNCHANGED <<reachable, cancelled, c, mu, cyc, ticker, rd, hist, others>>

\* the upstream goes away, or comes back, while a cycle polls it (between
\* cycles nothing observes it)
UpstreamFlips ==
    /\ \E p \in Procs : cyc[p].pc = "collect"
    /\ reachable' = ~reachable
    /\ UNCHANGED <<now, cancelled, c, mu, cyc, ticker, rd, hist, others>>

\* the context given to Start is cancelled
Cancel ==
    /\ ~cancelled
    /\ cancelled' = TRUE
    /\ UNCHANGED <<now, reachable, c, mu, cyc, ticker, rd, hist, others>>

\* the ticker delivers a tick; its channel holds one, a tick that finds it full is dropped
TickerFires ==
    /\ ticker.active
    /\ ~ticker.pending
    /\ ticker' = [ticker EXCEPT !.pending = TRUE]
    /\ UNCHANGED <<now, reachable, cancelled, c, mu, cyc, rd, hist, others>>

(* Start and the loop *)

\* refresh begins: now := time.Now().UTC(), and collect makes its first call
BeginRefresh(p) ==
    cyc' = [cyc EXCEPT ![p] = [IdleCycle("collect") EXCEPT !.at = now, !.up = UpstreamAt(now), !.k = 1]]

\* Start calls refresh on its caller's goroutine
StartRefresh ==
    /\ cyc["start"].pc = "init"
    /\ BeginRefresh("start")
    /\ UNCHANGED <<now, reachable, cancelled, c, mu, ticker, rd, hist, others>>

\* a Start that does not wait for its refresh
SpawnWithoutWaiting == TRUE

\* whether Start may create the ticker and the loop goroutine: its refresh has returned
StartMaySpawn == cyc["start"].pc = "refreshed"

\* Start creates the ticker, starts the loop goroutine and returns
StartSpawnsLoop ==
    /\ StartMaySpawn
    /\ cyc["loop"].pc = "unborn"
    /\ cyc["start"].pc \notin {"returned"}
    /\ cyc' = [cyc EXCEPT !["loop"] = IdleCycle("select"),
                          !["start"] = IF @.pc = "refreshed" THEN IdleCycle("returned") ELSE @]
    /\ ticker' = [ticker EXCEPT !.active = TRUE]
    /\ UNCHANGED <<now, reachable, cancelled, c, mu, rd, hist, others>>

\* select receives from ticker.C and calls refresh
LoopTick ==
    /\ cyc["loop"].pc = "select"
    /\ ticker.pending
    /\ ticker' = [ticker EXCEPT !.pending = FALSE]
    /\ BeginRefresh("loop")
    /\ UNCHANGED <<now, reachable, cancelled, c, mu, rd, hist, others>>

\* a loop that only leaves its select when the context is done
StaysInLoop == "select"

\* case <-ctx.Done(): return
AfterDone == "exited"

\* select receives from ctx.Done(): the loop returns, and its deferred ticker.Stop() runs
LoopDone ==
    /\ cyc["loop"].pc = "select"
    /\ cancelled
    /\ cyc' = [cyc EXCEPT !["loop"] = IdleCycle(AfterDone)]
    /\ ticker' = [ticker EXCEPT !.active = FALSE]
    /\ UNCHANGED <<now, reachable, cancelled, c, mu, rd, hist, others>>

(* refresh *)

\* a request that is not bound to the context
CallFailsUnreachableOnly == ~reachable

\* whether an upstream call made now fails: the request is bound to the
\* context, so it fails once the context is cancelled
CallFails == cancelled \/ ~reachable

\* where a cycle goes after call k has returned without aborting it
AfterCall(cy) ==
    IF cy.k = LastStatusCall(cy) THEN [cy EXCEPT !.pc = "rates"]
    ELSE IF cy.k = LastCall(cy) THEN [cy EXCEPT !.pc = "okLock", !.snap = Healthy(collect(cy), cy.at)]
    ELSE [cy EXCEPT !.k = @ + 1]

\* collect makes its next upstream call; refresh takes the error path when collect returns one
UpstreamCall(p) ==
    /\ cyc[p].pc = "collect"
    /\ LET cy == cyc[p]
       IN  cyc' = [cyc EXCEPT ![p] =
                     IF CallFails /\ AbortsOn(cy, cy.k)
                     THEN [cy EXCEPT !.pc = "errLock", !.err = Some(CallError(cy, cy.k))]
                     ELSE AfterCall([cy EXCEPT !.miss = IF CallFails THEN @ \cup {cy.k} ELSE @])]
    /\ UNCHANGED <<now, reachable, cancelled, c, mu, ticker, rd, hist, others>>

\* collect calls currentRates, between the DB status calls and the DB completion calls
ComputeRates(p) ==
    /\ cyc[p].pc = "rates"
    /\ LET r == currentRates(ConnectionsOf(cyc[p]).Total, cyc[p].at, c.sample)
           cy == [cyc[p] EXCEPT !.rates = [down |-> r.down, up |-> r.up]]
       IN  /\ c' = [c EXCEPT !.sample = r.sample]
           /\ cyc' = [cyc EXCEPT ![p] =
                        IF cy.k = LastCall(cy)
                        THEN [cy EXCEPT !.pc = "okLock", !.snap = Healthy(collect(cy), cy.at)]
                        ELSE [cy EXCEPT !.pc = "collect", !.k = @ + 1]]
    /\ UNCHANGED <<now, reachable, cancelled, mu, ticker, rd, hist, others>>

\* RWMutex: a writer announces itself when no other writer holds or waits, ...
WriterMayAnnounce == mu.writer = "none" /\ mu.pending = "none"
\* ... and enters once the readers that hold the lock have left
WriterMayEnter == mu.readers = {}
\* a reader that does not take the lock
EntersUnlocked == TRUE

\* a reader enters unless a writer holds the lock or waits for it
ReaderMayEnter == mu.writer = "none" /\ mu.pending = "none"

\* c.mu.Lock() is called
LockRequest(p) ==
    /\ cyc[p].pc \in {"okLock", "errLock"}
    /\ WriterMayAnnounce
    /\ mu' = [mu EXCEPT !.pending = p]
    /\ cyc' = [cyc EXCEPT ![p].pc = IF @ = "okLock" THEN "okWait" ELSE "errWait"]
    /\ UNCHANGED <<now, reachable, cancelled, c, ticker, rd, hist, others>>

\* c.mu.Lock() returns
LockAcquire(p) ==
    /\ cyc[p].pc \in {"okWait", "errWait"}
    /\ mu.pending = p
    /\ WriterMayEnter
    /\ mu' = [mu EXCEPT !.pending = "none", !.writer = p]
    /\ cyc' = [cyc EXCEPT ![p].pc = IF @ = "okWait" THEN "wSnap1" ELSE "errBranch"]
    /\ UNCHANGED <<now, reachable, cancelled, c, ticker, rd, hist, others>>

\* a failure path that always publishes the minimal snapshot
DegradedAlwaysMinimal(cy) == ColdStart(cy.at, cy.err.val)

\* the snapshot the failure path publishes: a copy of lastGood when there is one
Degraded(cy) ==
    IF c.hasLastGood THEN Fallback(c.lastGood, cy.err.val) ELSE ColdStart(cy.at, cy.err.val)

\* if c.hasLastGood { fallback := c.lastGood ... } else the minimal snapshot
ErrBranch(p) ==
    /\ cyc[p].pc = "errBranch"
    /\ cyc' = [cyc EXCEPT ![p] = [@ EXCEPT !.pc = "wSnap1", !.snap = Degraded(cyc[p])]]
    /\ UNCHANGED <<now, reachable, cancelled, c, mu, ticker, rd, hist, others>>

\* c.snapshot = ...: the first fields are stored
WriteSnapshotHead(p) ==
    /\ cyc[p].pc = "wSnap1"
    /\ c' = [c EXCEPT !.snapshot = CopyHead(@, cyc[p].snap)]
    /\ cyc' = [cyc EXCEPT ![p].pc = "wSnap2"]
    /\ UNCHANGED <<now, reachable, cancelled, mu, ticker, rd, hist, others>>

\* c.snapshot = ...: the remaining fields are stored
WriteSnapshotTail(p) ==
    /\ cyc[p].pc = "wSnap2"
    /\ c' = [c EXCEPT !.snapshot = CopyTail(@, cyc[p].snap)]
    /\ cyc' = [cyc EXCEPT ![p].pc = IF cyc[p].err.some THEN "wHas" ELSE "wLastGood"]
    /\ UNCHANGED <<now, reachable, cancelled, mu, ticker, rd, hist, others>>

\* a success path that leaves c.lastGood as it was
LastGoodKept(snapshot) == c.lastGood

\* the value the success path stores in c.lastGood: the snapshot it stored in c.snapshot
NewLastGood(snapshot) == snapshot

\* c.lastGood = snapshot (success path only)
WriteLastGood(p) ==
    /\ cyc[p].pc = "wLastGood"
    /\ c' = [c EXCEPT !.lastGood = NewLastGood(cyc[p].snap)]
    /\ cyc' = [cyc EXCEPT ![p].pc = "wHas"]
    /\ UNCHANGED <<now, reachable, cancelled, mu, ticker, rd, hist, others>>

\* c.hasSnapshot = true
WriteHasSnapshot(p) ==
    /\ cyc[p].pc = "wHas"
    /\ c' = [c EXCEPT !.hasSnapshot = TRUE]
    /\ cyc' = [cyc EXCEPT ![p].pc = IF cyc[p].err.some THEN "unlock" ELSE "wHasGood"]
    /\ UNCHANGED <<now, reachable, cancelled, mu, ticker, rd, hist, others>>

\* c.hasLastGood = true (success path only)
WriteHasLastGood(p) ==
    /\ cyc[p].pc = "wHasGood"
    /\ c' = [c EXCEPT !.hasLastGood = TRUE]
    /\ cyc' = [cyc EXCEPT ![p].pc = "unlock"]
    /\ UNCHANGED <<now, reachable, cancelled, mu, ticker, rd, hist, others>>

\* a loop that gives up after a failed refresh
StopsOnFailure(p) ==
    IF p = "start" THEN "refreshed" ELSE IF cyc[p].err.some THEN "exited" ELSE "select"

\* where a goroutine continues when refresh returns: Start goes on to create
\* the ticker, the loop goes back to its select, whatever refresh published
AfterRefresh(p) == IF p = "start" THEN "refreshed" ELSE "select"

\* a refresh that returns without releasing the lock
ReturnsLocked(p) ==
    /\ cyc[p].pc = "unlock"
    /\ hist' = [last |-> IF cyc[p].err.some THEN "fail" ELSE "ok",
                ok |-> IF cyc[p].err.some THEN hist.ok ELSE Some(cyc[p].snap),
                seen |-> IF cyc[p].err.some THEN hist.seen ELSE ConnectionsOf(cyc[p]).Total]
    /\ cyc' = [cyc EXCEPT ![p] = IdleCycle(AfterRefresh(p))]
    /\ UNCHANGED <<now, reachable, cancelled, c, mu, ticker, rd, others>>

\* c.mu.Unlock(), and refresh returns to Start or to the loop's select
Unlock(p) ==
    /\ cyc[p].pc = "unlock"
    /\ mu' = [mu EXCEPT !.writer = IF @ = p THEN "none" ELSE @]
    /\ hist' = [last |-> IF cyc[p].err.some THEN "fail" ELSE "ok",
                ok |-> IF cyc[p].err.some THEN hist.ok ELSE Some(cyc[p].snap),
                seen |-> IF cyc[p].err.some THEN hist.seen ELSE ConnectionsOf(cyc[p]).Total]
    /\ cyc' = [cyc EXCEPT ![p] = IdleCycle(AfterRefresh(p))]
    /\ UNCHANGED <<now, reachable, cancelled, c, ticker, rd, others>>

(* the readers: Snapshot() and Ready() *)

\* Snapshot() or Ready() is called: c.mu.RLock()
ReaderCalls(r, op) ==
    /\ rd[r].pc = "idle"
    /\ ReaderMayEnter
    /\ mu' = [mu EXCEPT !.readers = @ \cup {r}]
    /\ rd' = [rd EXCEPT ![r] = [IdleReader EXCEPT !.pc = op]]

\* a caller calls Snapshot() or Ready()
ReaderEnters(r) ==
    /\ \E op \in {"has", "readyHas"} : ReaderCalls(r, op)
    /\ UNCHANGED <<now, reachable, cancelled, c, cyc, ticker, hist, others>>

\* Snapshot(): if !c.hasSnapshot { return model.DashboardSnapshot{}, false }
SnapshotReadsHas(r) ==
    /\ rd[r].pc = "has"
    /\ rd' = [rd EXCEPT ![r].pc = IF c.hasSnapshot THEN "copy1" ELSE "ret"]
    /\ UNCHANGED <<now, reachable, cancelled, c, mu, cyc, ticker, hist, others>>

\* Snapshot(): out := c.snapshot, the first fields
SnapshotCopiesHead(r) ==
    /\ rd[r].pc = "copy1"
    /\ rd' = [rd EXCEPT ![r] = [@ EXCEPT !.pc = "copy2", !.out = CopyHead(@, c.snapshot)]]
    /\ UNCHANGED <<now, reachable, cancelled, c, mu, cyc, ticker, hist, others>>

\* Snapshot(): out := c.snapshot, the remaining fields
SnapshotCopiesTail(r) ==
    /\ rd[r].pc = "copy2"
    /\ rd' = [rd EXCEPT ![r] = [@ EXCEPT !.pc = "stale", !.out = CopyTail(@, c.snapshot)]]
    /\ UNCHANGED <<now, reachable, cancelled, c, mu, cyc, ticker, hist, others>>

\* a Snapshot() that sets the stale flag of the stored snapshot as well
StaleStoredInPlace(r) == [c EXCEPT !.snapshot.Stale = ReadStale(rd[r].out, now)]

\* the Collector's fields after Snapshot() has set out.Stale: out is a copy
\* of the struct, so they are as before
AfterSnapshotRead(r) == c

\* Snapshot(): the staleness of the copy is recomputed against the clock
SnapshotRecomputesStale(r) ==
    /\ rd[r].pc = "stale"
    /\ rd' = [rd EXCEPT ![r] = [@ EXCEPT !.pc = "ret", !.ok = TRUE, !.at = now,
                                         !.out = [@ EXCEPT !.Stale = ReadStale(rd[r].out, now)]]]
    /\ c' = AfterSnapshotRead(r)
    /\ UNCHANGED <<now, reachable, cancelled, mu, cyc, ticker, hist, others>>

\* a readiness that waits for a successful refresh
ReadyWhenLastGood == c.hasLastGood

\* a readiness that holds only while the source is online
ReadyWhenOnline == c.hasSnapshot /\ c.snapshot.SourceOnline

\* what Ready() returns
ReadyValue == c.hasSnapshot

\* Ready(): return c.hasSnapshot
ReadyReadsHas(r) ==
    /\ rd[r].pc = "readyHas"
    /\ rd' = [rd EXCEPT ![r] = [@ EXCEPT !.pc = "readyRet", !.ok = ReadyValue]]
    /\ UNCHANGED <<now, reachable, cancelled, c, mu, cyc, ticker, hist, others>>

\* the deferred c.mu.RUnlock(), and the call returns
ReaderLeaves(r) ==
    /\ rd[r].pc \in {"ret", "readyRet"}
    /\ mu' = [mu EXCEPT !.readers = @ \ {r}]
    /\ rd' = [rd EXCEPT ![r] = IdleReader]

\* a call of Snapshot() or Ready() returns to its caller
ReaderReturns(r) ==
    /\ ReaderLeaves(r)
    /\ UNCHANGED <<now, reachable, cancelled, c, cyc, ticker, hist, others>>

\* the same return, seen from the caller: it goes on holding what the call
\* returned until its next call
ReaderReturnsKeeping(r) ==
    /\ rd[r].pc \in {"ret", "readyRet"}
    /\ mu' = [mu EXCEPT !.readers = @ \ {r}]
    /\ rd' = [rd EXCEPT ![r].pc = "idle"]
    /\ UNCHANGED <<now, reachable, cancelled, c, cyc, ticker, hist, others>>

(* the HTTP API: ServeHTTP over the routes registered by New *)

\* the patterns New registers with handlers that consult the method
ApiEndpoints == {"/api/v1/dashboard", "/healthz", "/readyz"}

\* the requests served: the three endpoints and a path that falls to the file server
ApiPaths == ApiEndpoints \cup {"/"}
ApiMethods == {"GET", "HEAD", "POST", "DELETE"}

\* http.StatusOK, StatusMethodNotAllowed, StatusServiceUnavailable
StatusOK == 200
StatusMethodNotAllowed == 405
StatusServiceUnavailable == 503

\* what http.FileServer(http.Dir("web")) may answer: the file, a redirect, not found
FileServerStatuses == {200, 301, 404}

\* the reader call a handler makes
ReaderOpOf(path) == IF path = "/api/v1/dashboard" THEN "has" ELSE "readyHas"

\* a handler that answers not-found when the reader has nothing
ReaderStatusNotFound(ok) == IF ok THEN StatusOK ELSE 404

\* handleDashboard: if !ok { 503 } else 200; handleReadyz: if !a.reader.Ready() { 503 } else 200
ReaderStatus(ok) == IF ok THEN StatusOK ELSE StatusServiceUnavailable

\* the goroutine serving requests calls the reader as this caller
ApiReader == "r1"

\* ServeHTTP up to the handler's call of the reader: the mux routes the request;
\* a handler answers 405 to a method other than GET, handleHealthz answers 200
ApiServes(method, path) ==
    /\ api.pc = "idle"
    /\ rd[ApiReader].pc = "idle"
    /\ \E fileStatus \in FileServerStatuses :
         api' = IF path \notin ApiEndpoints
                THEN [pc |-> "idle", method |-> method, path |-> path,
                      status |-> fileStatus, consulted |-> FALSE]
                ELSE IF method # "GET"
                THEN [pc |-> "idle", method |-> method, path |-> path,
                      status |-> StatusMethodNotAllowed, consulted |-> FALSE]
                ELSE IF path = "/healthz"
                THEN [pc |-> "idle", method |-> method, path |-> path,
                      status |-> StatusOK, consulted |-> FALSE]
                ELSE [pc |-> "calling", method |-> method, path |-> path,
                      status |-> 0, consulted |-> FALSE]
    /\ UNCHANGED <<now, reachable, cancelled, c, mu, cyc, ticker, rd, hist, client, conf, demo>>

\* a.reader.Snapshot() or a.reader.Ready() is called: c.mu.RLock()
ApiCallsReader ==
    /\ api.pc = "calling"
    /\ ReaderCalls(ApiReader, ReaderOpOf(api.path))
    /\ api' = [api EXCEPT !.pc = "reading", !.consulted = TRUE]
    /\ UNCHANGED <<now, reachable, cancelled, c, cyc, ticker, hist, client, conf, demo>>

\* the reader's call returns and the handler writes its response
ApiResponds ==
    /\ api.pc = "reading"
    /\ ReaderLeaves(ApiReader)
    /\ api' = [api EXCEPT !.pc = "idle", !.status = ReaderStatus(rd[ApiReader].ok)]
    /\ UNCHANGED <<now, reachable, cancelled, c, cyc, ticker, hist, client, conf, demo>>

\* the steps of Start, of the loop and of refresh
Collector ==
    \/ StartRefresh
    \/ StartSpawnsLoop
    \/ LoopTick
    \/ LoopDone
    \/ \E p \in Procs : UpstreamCall(p)
    \/ \E p \in Procs : ComputeRates(p)
    \/ \E p \in Procs : LockRequest(p)
    \/ \E p \in Procs : LockAcquire(p)
    \/ \E p \in Procs : ErrBranch(p)
    \/ \E p \in Procs : WriteSnapshotHead(p)
    \/ \E p \in Procs : WriteSnapshotTail(p)
    \/ \E p \in Procs : WriteLastGood(p)
    \/ \E p \in Procs : WriteHasSnapshot(p)
    \/ \E p \in Procs : WriteHasLastGood(p)
    \/ \E p \in Procs : Unlock(p)

\* the steps of a call of Snapshot() or Ready() between RLock and its return
ReaderProceeds ==
    \/ \E r \in Readers : SnapshotReadsHas(r)
    \/ \E r \in Readers : SnapshotCopiesHead(r)
    \/ \E r \in Readers : SnapshotCopiesTail(r)
    \/ \E r \in Readers : SnapshotRecomputesStale(r)
    \/ \E r \in Readers : ReadyReadsHas(r)

\* the steps of a call of Snapshot() or Ready() once it holds the read lock
ReaderFinishes == ReaderProceeds \/ \E r \in Readers : ReaderReturns(r)

\* the steps of the callers of Snapshot() and Ready()
Reading == (\E r \in Readers : ReaderEnters(r)) \/ ReaderFinishes

Next == Tick \/ UpstreamFlips \/ Cancel \/ TickerFires \/ Collector \/ Reading

Spec == Init /\ [][Next]_vars

NextNoReaders == Tick \/ UpstreamFlips \/ Cancel \/ TickerFires \/ Collector
SpecNoReaders == Init /\ [][NextNoReaders]_vars

(* The rate computation over refreshes that find any of a few connection
   totals, under a wall clock that may also be set back: refresh reads
   time.Now().UTC(), which carries no monotonic reading *)

\* the connection totals a refresh may find: counters that grow, a counter
\* that restarts, and totals that come with a reported rate
RateTotals ==
    {Totals(1000, 2000, 0, 0), Totals(1600, 2600, 0, 0), Totals(2200, 1400, 0, 0),
     Totals(1600, 2600, 8000, 4000), Totals(2200, 3200, 0, 4000)}

\* refresh begins and will find the given connection totals
BeginRefreshFinding(p, total) ==
    cyc' = [cyc EXCEPT ![p] = [IdleCycle("collect") EXCEPT
                                  !.at = now, !.k = 1,
                                  !.up = [UpstreamAt(1) EXCEPT !.connections.Total = total]]]

StartRefreshFinding ==
    /\ cyc["start"].pc = "init"
    /\ \E total \in RateTotals : BeginRefreshFinding("start", total)
    /\ UNCHANGED <<now, reachable, cancelled, c, mu, ticker, rd, hist, others>>

LoopTickFinding ==
    /\ cyc["loop"].pc = "select"
    /\ ticker.pending
    /\ ticker' = [ticker EXCEPT !.pending = FALSE]
    /\ \E total \in RateTotals : BeginRefreshFinding("loop", total)
    /\ UNCHANGED <<now, reachable, cancelled, c, mu, rd, hist, others>>

\* the wall clock moves, forward or back, between two refreshes (a refresh
\* reads it once, when it begins)
ClockSteps ==
    /\ \A p \in Procs : cyc[p].pc \in {"init", "unborn", "refreshed", "returned", "select"}
    /\ now' \in (1..MaxTime) \ {now}
    /\ UNCHANGED <<reachable, cancelled, c, mu, cyc, ticker, rd, hist, others>>

InitRates == Init /\ reachable

NextRates ==
    \/ ClockSteps
    \/ TickerFires
    \/ StartRefreshFinding
    \/ StartSpawnsLoop
    \/ LoopTickFinding
    \/ \E p \in Procs : UpstreamCall(p)
    \/ \E p \in Procs : ComputeRates(p)
    \/ \E p \in Procs : LockRequest(p)
    \/ \E p \in Procs : LockAcquire(p)
    \/ \E p \in Procs : WriteSnapshotHead(p)
    \/ \E p \in Procs : WriteSnapshotTail(p)
    \/ \E p \in Procs : WriteLastGood(p)
    \/ \E p \in Procs : WriteHasSnapshot(p)
    \/ \E p \in Procs : WriteHasLastGood(p)
    \/ \E p \in Procs : Unlock(p)

SpecRates == InitRates /\ [][NextRates]_vars

(* collect as a function of the responses: Start's refresh over an upstream
   whose configuration lists three folders and three devices in any order,
   with any of a few responses for folder a *)

FolderC == <<"c">>

\* the permutations of 1..n
Perms(n) == {f \in [1..n -> 1..n] : \A i, j \in 1..n : f[i] = f[j] => i = j}

\* the three configured folders: b is paused while it syncs, a has a blank
\* label, c is labelled in upper case or like b
ConfigFolders(pausedA, labelC) ==
    <<[ID |-> FolderB, Label |-> <<"b">>, Path |-> "/mnt/b", Paused |-> TRUE],
      [ID |-> FolderA, Label |-> <<Space>>, Path |-> "/mnt/a", Paused |-> pausedA],
      [ID |-> FolderC, Label |-> labelC, Path |-> "/mnt/c", Paused |-> FALSE]>>

StatesOfA == {EmptyStr, <<Space, Space>>, <<Space, "error", Space>>, S("idle")}
\* <<needItems, needBytes>> of folder a's completion; its DB status says 10 and 2048
NeedsOfA == {<<-4, -1024>>, <<0, 0>>, <<12, 3072>>}
\* globalBytes of folder a's completion; its DB status says 4096
GlobalBytesOfA == {50, 4096, 8000}
\* the completion folder a's completion response reports along with each of
\* these sizes: below the range, at its lower end, above it (that of b is 8,
\* that of c is 100)
CompletionOfA(globalA) ==
    CASE globalA = 50 -> -1
      [] globalA = 4096 -> 0
      [] globalA = 8000 -> 101

\* the upstreams Start's refresh may find
BuildWorlds ==
    {[UpstreamAt(2) EXCEPT
        !.config = [Devices |-> [i \in 1..3 |-> UpstreamAt(2).config.Devices[devicePerm[i]]],
                    Folders |-> [i \in 1..3 |-> ConfigFolders(pausedA, labelC)[folderPerm[i]]]],
        !.dbStatus = (FolderB :> DBStatus(S("syncing"), 100, 5, 10, 0)) @@
                     (FolderC :> DBStatus(S("scanning"), 300, 1, 0, 0)) @@
                     (FolderA :> [DBStatus(stateA, 4096, 20, 2048, 3) EXCEPT !.NeedTotalItems = 10]),
        !.dbCompletion = (FolderB :> DBCompletion(8, 0, 0, 50)) @@
                         (FolderC :> DBCompletion(100, -1, 3, 300)) @@
                         (FolderA :> DBCompletion(CompletionOfA(globalA), needA[2], needA[1], globalA))] :
       devicePerm \in Perms(3), folderPerm \in Perms(3),
       pausedA \in BOOLEAN, labelC \in {<<"B">>, <<"b">>},
       stateA \in StatesOfA, needA \in NeedsOfA, globalA \in GlobalBytesOfA}

\* Start calls refresh, which will find one of these upstreams
StartRefreshBuilding ==
    /\ cyc["start"].pc = "init"
    /\ \E u \in BuildWorlds :
          cyc' = [cyc EXCEPT !["start"] = [IdleCycle("collect") EXCEPT !.at = now, !.up = u, !.k = 1]]
    /\ UNCHANGED <<now, reachable, cancelled, c, mu, ticker, rd, hist, others>>

NextBuild ==
    \/ StartRefreshBuilding
    \/ UpstreamCall("start")
    \/ ComputeRates("start")
    \/ LockRequest("start")
    \/ LockAcquire("start")
    \/ WriteSnapshotHead("start")
    \/ WriteSnapshotTail("start")
    \/ WriteLastGood("start")
    \/ WriteHasSnapshot("start")
    \/ WriteHasLastGood("start")
    \/ Unlock("start")

SpecBuild == InitRates /\ [][NextBuild]_vars

NextNoClock == UpstreamFlips \/ Cancel \/ TickerFires \/ Collector \/ Reading
SpecNoClock == Init /\ [][NextNoClock]_vars

\* The goroutines keep running, an active ticker keeps firing, a call that
\* holds the read lock returns, and a select whose ctx.Done() case is ready
\* again and again takes it in the end (select picks among its ready cases
\* at random).
SpecLive ==
    /\ Init /\ [][NextNoClock]_vars
    /\ WF_vars(Collector)
    /\ WF_vars(TickerFires)
    /\ WF_vars(ReaderFinishes)
    /\ SF_vars(LoopDone)

\* readers whose callers keep what was returned to them
ReadingKeeping ==
    \/ \E r \in Readers : ReaderEnters(r)
    \/ ReaderProceeds
    \/ \E r \in Readers : ReaderReturnsKeeping(r)

NextKeeping == UpstreamFlips \/ Cancel \/ TickerFires \/ Collector \/ ReadingKeeping
SpecKeeping == Init /\ [][NextKeeping]_vars

-----------------------------------------------------------------------------
(* Properties *)

\* a call of Snapshot() is about to return rd[r].out and rd[r].ok; it still
\* holds the read lock, so the refresh that completed last is the one it sees
Returning(r) == rd[r].pc = "ret"

\* C1: when the refresh that completed last failed and a refresh succeeded
\* before it, Snapshot() returns source_online false, stale true, an error
\* text, the device, folders and remotes of the last successful snapshot, and
\* the SOURCE_UNREACHABLE alert followed by that snapshot's alerts in order.
C1_FallbackRead ==
    \A r \in Readers :
        (Returning(r) /\ hist.last = "fail" /\ hist.ok.some) =>
            /\ rd[r].ok
            /\ ~rd[r].out.SourceOnline
            /\ rd[r].out.Stale
            /\ rd[r].out.SourceError.some
            /\ rd[r].out.Device = hist.ok.val.Device
            /\ rd[r].out.Folders = hist.ok.val.Folders
            /\ rd[r].out.Remotes = hist.ok.val.Remotes
            /\ rd[r].out.Alerts = <<SourceUnreachable>> \o hist.ok.val.Alerts

\* a fallback is read whose last-good snapshot has data and several alerts
C1_Witness ==
    \E r \in Readers :
        /\ Returning(r) /\ hist.last = "fail" /\ hist.ok.some
        /\ Len(hist.ok.val.Alerts) >= 2
        /\ Len(hist.ok.val.Folders) = 2
        /\ Len(rd[r].out.Alerts) = Len(hist.ok.val.Alerts) + 1

\* C2: when every refresh so far has failed, Snapshot() reports available
\* with source_online false, stale true, the empty device, no folders, no
\* remotes and exactly the one SOURCE_UNREACHABLE alert.
C2_ColdStartRead ==
    \A r \in Readers :
        (Returning(r) /\ hist.last = "fail" /\ ~hist.ok.some) =>
            /\ rd[r].ok
            /\ ~rd[r].out.SourceOnline
            /\ rd[r].out.Stale
            /\ rd[r].out.SourceError.some
            /\ rd[r].out.Device = ZeroDevice
            /\ rd[r].out.Folders = <<>>
            /\ rd[r].out.Remotes = <<>>
            /\ rd[r].out.Alerts = <<SourceUnreachable>>

\* the first refresh has failed, nothing else has run, and the result is read
C2_Witness ==
    \E r \in Readers :
        /\ Returning(r) /\ hist.last = "fail" /\ ~hist.ok.some
        /\ cyc["loop"].pc = "unborn"

\* C3: whenever Snapshot() returns an available snapshot, its stale flag is
\* true exactly when the snapshot is older than two polling intervals at the
\* time of the read or its source_online is false.
C3_ReadStale ==
    \A r \in Readers :
        (Returning(r) /\ rd[r].ok) =>
            (rd[r].out.Stale <=>
                \/ rd[r].at - rd[r].out.GeneratedAt > 2 * PollInterval
                \/ ~rd[r].out.SourceOnline)

\* a snapshot published as healthy is read after it has aged out
C3_Witness ==
    \E r \in Readers :
        /\ Returning(r) /\ rd[r].ok
        /\ rd[r].out.SourceOnline /\ rd[r].out.Stale
        /\ ~c.snapshot.Stale

\* the Collector's fields are not being written
Quiet == mu.writer = "none"

\* C4: Ready() returns false while no refresh has completed and true once one
\* has, whether it succeeded or failed; the flag behind it never goes back
\* to false; and Snapshot()'s availability is that same flag.
C4_Ready ==
    /\ [](\A r \in Readers :
            /\ rd[r].pc = "readyRet" => (rd[r].ok <=> hist.last # "none")
            /\ rd[r].pc = "readyRet" => (rd[r].ok <=> c.hasSnapshot)
            /\ Returning(r) => (rd[r].ok <=> c.hasSnapshot))
    /\ []((Quiet /\ hist.last = "none") => ~c.hasSnapshot)
    /\ [][c.hasSnapshot => c.hasSnapshot']_vars

\* Ready() returns true although no refresh has succeeded yet
C4_Witness ==
    \E r \in Readers :
        rd[r].pc = "readyRet" /\ rd[r].ok /\ hist.last = "fail" /\ ~hist.ok.some

\* the positions of refresh in which it holds the write lock
Writing == {"errBranch", "wSnap1", "wSnap2", "wLastGood", "wHas", "wHasGood", "unlock"}

NoSourceUnreachable(snapshot) ==
    \A i \in 1..Len(snapshot.Alerts) : snapshot.Alerts[i].Code # "SOURCE_UNREACHABLE"

\* C5: when a refresh has succeeded, whatever the state before it, the
\* published snapshot and the last-known-good snapshot are both the snapshot
\* that refresh built, with source_online true, no error text, the stored
\* stale flag false and no SOURCE_UNREACHABLE alert.
C5_SuccessPublishes ==
    /\ \A p \in Procs :
          (cyc[p].pc = "unlock" /\ ~cyc[p].err.some) =>
              /\ c.snapshot = cyc[p].snap /\ c.lastGood = cyc[p].snap
              /\ c.hasSnapshot /\ c.hasLastGood
              /\ c.snapshot.GeneratedAt = cyc[p].at
    /\ (Quiet /\ hist.last = "ok") =>
          /\ c.snapshot = hist.ok.val /\ c.lastGood = hist.ok.val
          /\ c.snapshot.SourceOnline /\ c.snapshot.SourceError = None
          /\ ~c.snapshot.Stale /\ NoSourceUnreachable(c.snapshot)

\* a refresh succeeds after a failed one had published a fallback
C5_Witness ==
    \E p \in Procs :
        /\ cyc[p].pc = "unlock" /\ ~cyc[p].err.some
        /\ hist.last = "fail" /\ hist.ok.some
        /\ hist.ok.val # cyc[p].snap

\* some upstream call of the cycle of p has failed
SomeCallFailed(p) == cyc[p].err.some \/ cyc[p].miss # {}

\* C6: a cycle in which any upstream call failed never goes on to publish a
\* source_online snapshot; what it publishes is the degraded snapshot.
C6_PartialIsFailure ==
    /\ \A p \in Procs :
          SomeCallFailed(p) =>
              /\ cyc[p].pc \notin {"collect", "rates", "okLock", "okWait", "wLastGood", "wHasGood"}
              /\ cyc[p].pc \in Writing \ {"errBranch"} =>
                    /\ ~cyc[p].snap.SourceOnline /\ cyc[p].snap.Stale
                    /\ cyc[p].snap.SourceError = cyc[p].err
                    /\ Head(cyc[p].snap.Alerts) = SourceUnreachable
              /\ cyc[p].pc = "unlock" => c.snapshot = cyc[p].snap
    /\ (Quiet /\ hist.last = "fail") => ~c.snapshot.SourceOnline

\* the last call of a cycle, a DB completion, is the only one that failed
C6_Witness ==
    \E p \in Procs :
        /\ cyc[p].pc = "unlock"
        /\ cyc[p].err = Some(<<"get db completion for folder ", FolderA, "request ", "/rest/db/completion">>)
        /\ hist.ok.some

\* the positions of a collection cycle
InCycle(p) ==
    cyc[p].pc \in {"collect", "rates", "okLock", "okWait", "errLock", "errWait"} \cup Writing

\* C7: no two collection cycles are in progress at once; the loop and its
\* ticker do not exist until the first refresh has completed; and a cycle
\* writes the Collector's fields only while it holds the write lock with no
\* reader inside, from the first field to the last.
C7_OneCycle ==
    /\ ~(InCycle("start") /\ InCycle("loop"))
    /\ hist.last = "none" => (cyc["loop"].pc = "unborn" /\ ~ticker.active /\ ~ticker.pending)
    /\ cyc["loop"].pc # "unborn" => cyc["start"].pc = "returned"
    /\ \A p \in Procs :
          /\ cyc[p].pc \in Writing => (mu.writer = p /\ mu.readers = {})
          /\ mu.writer = p => cyc[p].pc \in Writing
    /\ Quiet => (c.hasSnapshot <=> hist.last # "none")

\* a tick fires while a cycle of the loop is writing its result
C7_Witness ==
    /\ ticker.pending
    /\ cyc["loop"].pc = "wSnap2"
    /\ mu.pending = "none"

\* the snapshot that the refreshes completed so far have left published
Published ==
    CASE hist.last = "none" -> ZeroSnapshot
      [] hist.last = "ok" -> hist.ok.val
      [] hist.last = "fail" /\ hist.ok.some /\ c.snapshot.SourceError.some ->
             Fallback(hist.ok.val, c.snapshot.SourceError.val)
      [] hist.last = "fail" /\ ~hist.ok.some /\ c.snapshot.SourceError.some ->
             ColdStart(c.snapshot.GeneratedAt, c.snapshot.SourceError.val)
      [] OTHER -> ZeroSnapshot

\* C8: while a call of Snapshot() or Ready() holds the read lock no refresh
\* is writing and the snapshot is one whole published snapshot; the copy
\* Snapshot() takes is that snapshot, field for field; it never reports
\* available with the zero snapshot; and what a call has returned stays as
\* it was while later refreshes publish.
C8_WholeSnapshots ==
    /\ [](\A r \in Readers :
            /\ rd[r].pc # "idle" => (Quiet /\ c.snapshot = Published)
            /\ rd[r].pc = "stale" => rd[r].out = c.snapshot
            /\ (Returning(r) /\ rd[r].ok) =>
                  /\ [rd[r].out EXCEPT !.Stale = c.snapshot.Stale] = c.snapshot
                  /\ rd[r].out # ZeroSnapshot
                  /\ hist.last # "none")
    /\ [][\A r \in Readers :
            (rd[r].pc = "idle" /\ rd'[r].pc = "idle") => rd'[r] = rd[r]]_vars

\* a caller still holds a healthy snapshot after a failed refresh has
\* published its fallback
C8_Witness ==
    \E r \in Readers :
        /\ rd[r].pc = "idle" /\ rd[r].ok /\ rd[r].out.SourceOnline
        /\ hist.last = "fail" /\ Quiet
        /\ ~c.snapshot.SourceOnline

\* C9: the loop ends only when the context is cancelled; while it is not, a
\* tick that waits after a failed refresh leads to another cycle; and if the
\* upstream becomes reachable and stays so, refreshes succeed from some point
\* on and the published snapshot is a source_online one.
C9_Recovers ==
    /\ [](cyc["loop"].pc = "exited" => cancelled)
    /\ ([]~cancelled) =>
          ((ticker.pending /\ hist.last = "fail") ~> (cyc["loop"].pc = "collect"))
    /\ ([]~cancelled /\ <>[]reachable) =>
          <>[](hist.last = "ok" /\ (Quiet => c.snapshot.SourceOnline))

\* a cycle of the loop succeeds after failed ones, the first among them
C9_Witness ==
    /\ cyc["loop"].pc = "unlock" /\ ~cyc["loop"].err.some
    /\ hist.last = "fail" /\ ~hist.ok.some
    /\ ~cancelled

\* C10: once the context is cancelled the loop exits in the end; from then
\* on it stays exited, no cycle is in progress and the Collector's fields,
\* the published snapshot among them, never change.
C10_Stops ==
    /\ cancelled ~> (cyc["loop"].pc = "exited")
    /\ [][cyc["loop"].pc = "exited" =>
            /\ cyc'["loop"].pc = "exited"
            /\ c' = c
            /\ \A p \in Procs : ~InCycle(p)']_vars

\* the loop has exited with a tick left in the ticker's channel
C10_Witness ==
    /\ cyc["loop"].pc = "exited"
    /\ ticker.pending
    /\ c.hasSnapshot


\* C11: in every published snapshot source_error is present exactly when
\* source_online is false, and the text a failed refresh publishes is the
\* error of that refresh itself, whatever earlier failures had published.
C11_SourceError ==
    /\ (Quiet /\ c.hasSnapshot) =>
          (c.snapshot.SourceError.some <=> ~c.snapshot.SourceOnline)
    /\ (Quiet /\ hist.last = "fail") => c.snapshot.SourceError.some
    /\ (Quiet /\ hist.last = "ok") => ~c.snapshot.SourceError.some
    /\ \A p \in Procs :
          cyc[p].pc = "unlock" => c.snapshot.SourceError = cyc[p].err

\* a refresh that failed on a DB status call has published its error over
\* the fallback of an earlier failed refresh
C11_Witness ==
    \E p \in Procs :
        /\ cyc[p].pc = "unlock"
        /\ cyc[p].err = Some(<<"get db status for folder ", FolderB, "request ", "/rest/db/status">>)
        /\ hist.last = "fail" /\ hist.ok.some

\* the time of the most recent successful collection cycle; the zero time
\* when none has succeeded
LastSuccessAt == IF hist.ok.some THEN hist.ok.val.GeneratedAt ELSE 0

\* C12 as stated: the generated_at of the current snapshot always equals the
\* time of the most recent successful collection cycle.
C12_Original ==
    (Quiet /\ c.hasSnapshot) => c.snapshot.GeneratedAt = LastSuccessAt

\* C12, amended: once a collection cycle has succeeded, generated_at is the
\* time of the most recent successful cycle, also after any number of failed
\* polls; while none has succeeded, it is the time of the most recent failed
\* poll.
C12_GeneratedAt ==
    /\ (Quiet /\ hist.ok.some) => c.snapshot.GeneratedAt = LastSuccessAt
    /\ \A p \in Procs :
          cyc[p].pc = "unlock" =>
              IF cyc[p].err.some /\ hist.ok.some
              THEN c.snapshot.GeneratedAt = LastSuccessAt
              ELSE c.snapshot.GeneratedAt = cyc[p].at

\* a fallback is in place while the clock has moved on since the last success
C12_Witness ==
    /\ Quiet /\ hist.last = "fail" /\ hist.ok.some
    /\ now > c.snapshot.GeneratedAt + 1


\* f is the quotient n / d
IsQuotient(f, n, d) == f.d > 0 /\ f.n * d = n * f.d

\* the rate policy: what a rate computation that finds the totals `total` at
\* time `at`, with `sample` stored, is to return
RatePolicy(total, at, sample, rates) ==
    LET elapsed == at - sample.lastRateAt
        inDelta == total.InBytesTotal - sample.lastInTotal
        outDelta == total.OutBytesTotal - sample.lastOutTotal
        asReported == /\ IsQuotient(rates.down, total.BitsPerSecondIn, 8)
                      /\ IsQuotient(rates.up, total.BitsPerSecondOut, 8)
    IN  /\ IF total.BitsPerSecondIn # 0 \/ total.BitsPerSecondOut # 0
           THEN asReported
           ELSE IF sample.lastRateAt = 0 \/ elapsed <= 0 \/ inDelta < 0 \/ outDelta < 0
           THEN asReported
           ELSE /\ IsQuotient(rates.down, inDelta * UnitsPerSecond, elapsed)
                /\ IsQuotient(rates.up, outDelta * UnitsPerSecond, elapsed)
        /\ rates.down.n >= 0 /\ rates.up.n >= 0

\* C13: a rate computation returns the rate the upstream reports when it
\* reports a nonzero one; otherwise the counters' growth since the stored
\* sample over the seconds elapsed since it, in each direction, except that
\* without a stored sample, with non-positive elapsed time or with a negative
\* delta it returns the reported rate; no rate is negative, and the rates of
\* the cycle are the ones its snapshot publishes.
C13_RatePolicy ==
    [][\A p \in Procs :
          /\ (cyc[p].pc = "rates" /\ cyc'[p].pc # "rates") =>
                RatePolicy(ConnectionsOf(cyc[p]).Total, cyc[p].at, c.sample, cyc'[p].rates)
          /\ (cyc'[p].pc = "unlock" /\ ~cyc'[p].err.some) =>
                /\ c'.snapshot.Device.DownloadBPS = cyc'[p].rates.down
                /\ c'.snapshot.Device.UploadBPS = cyc'[p].rates.up]_vars

\* a refresh publishes 6000 bytes per second both ways: the counters grew by
\* 600 bytes in one clock unit
C13_Witness ==
    \E p \in Procs :
        /\ cyc[p].pc = "unlock"
        /\ c.snapshot.Device.DownloadBPS = [n |-> 6000, d |-> 1]
        /\ c.snapshot.Device.UploadBPS = [n |-> 6000, d |-> 1]
        /\ c.sample = [lastRateAt |-> cyc[p].at, lastInTotal |-> 1600, lastOutTotal |-> 2600]


\* the rate sample of a cycle: its time and the counters it found
SampleOf(cy) ==
    [lastRateAt |-> cy.at, lastInTotal |-> ConnectionsOf(cy).Total.InBytesTotal,
     lastOutTotal |-> ConnectionsOf(cy).Total.OutBytesTotal]

\* C14: after the rate computation of every cycle, whichever branch it took,
\* the stored sample is the time and the counters of that cycle.
C14_SampleEveryCycle ==
    \A p \in Procs :
        (cyc[p].pc = "collect" /\ cyc[p].k > LastStatusCall(cyc[p])) =>
            c.sample = SampleOf(cyc[p])

\* C15: when a successful refresh follows a successful refresh, neither found
\* a reported rate and both counters grew between them, the second publishes
\* positive rates equal to the counters' growth over the seconds elapsed
\* between the two (600 bytes in 100 ms: 6000 bytes per second).
C15_DerivedRate ==
    \A p \in Procs :
        LET total == ConnectionsOf(cyc[p]).Total
            elapsed == cyc[p].at - hist.ok.val.GeneratedAt
        IN  ( /\ cyc[p].pc = "unlock" /\ ~cyc[p].err.some
              /\ hist.last = "ok"
              /\ hist.seen.BitsPerSecondIn = 0 /\ hist.seen.BitsPerSecondOut = 0
              /\ total.BitsPerSecondIn = 0 /\ total.BitsPerSecondOut = 0
              /\ total.InBytesTotal > hist.seen.InBytesTotal
              /\ total.OutBytesTotal > hist.seen.OutBytesTotal
              /\ elapsed > 0 )
            => /\ FracPositive(c.snapshot.Device.DownloadBPS)
               /\ FracPositive(c.snapshot.Device.UploadBPS)
               /\ IsQuotient(c.snapshot.Device.DownloadBPS,
                             (total.InBytesTotal - hist.seen.InBytesTotal) * UnitsPerSecond, elapsed)
               /\ IsQuotient(c.snapshot.Device.UploadBPS,
                             (total.OutBytesTotal - hist.seen.OutBytesTotal) * UnitsPerSecond, elapsed)


\* refresh has published the snapshot it collected and is about to return
Built(p) == cyc[p].pc = "unlock" /\ ~cyc[p].err.some

\* C16: whatever the order of the folders and of the devices in the
\* configuration, a successful cycle publishes the folders in non-decreasing
\* order of label and the remotes in non-decreasing order of name.
C16_Sorted ==
    \A p \in Procs :
        Built(p) =>
            /\ \A i \in 1..(Len(c.snapshot.Folders) - 1) :
                  ~StrLess(c.snapshot.Folders[i + 1].Label, c.snapshot.Folders[i].Label)
            /\ \A i \in 1..(Len(c.snapshot.Remotes) - 1) :
                  ~StrLess(c.snapshot.Remotes[i + 1].Name, c.snapshot.Remotes[i].Name)
            /\ Len(c.snapshot.Folders) = Len(cyc[p].up.config.Folders)

\* the configuration lists b, a, c (labelled B) and the remotes R2, R1: both
\* in descending order
C16_Witness ==
    /\ Built("start")
    /\ [i \in 1..3 |-> cyc["start"].up.config.Folders[i].ID] = <<FolderB, FolderA, FolderC>>
    /\ [i \in 1..3 |-> cyc["start"].up.config.Devices[i].DeviceID] = <<Remote2, Remote1, LocalID>>
    /\ [i \in 1..3 |-> c.snapshot.Folders[i].Label] = << <<"B">>, <<"a">>, <<"b">> >>
    /\ [i \in 1..2 |-> c.snapshot.Remotes[i].ID] = <<Remote1, Remote2>>


\* C17: in every snapshot the collector publishes, healthy, degraded from the
\* last good one or cold-start, every folder has need_items >= 0 and
\* need_bytes >= 0, also when the completion endpoint reports negative needs.
C17_NeedNonNegative ==
    /\ \A i \in DOMAIN c.snapshot.Folders :
          c.snapshot.Folders[i].NeedItems >= 0 /\ c.snapshot.Folders[i].NeedBytes >= 0
    /\ \A i \in DOMAIN c.lastGood.Folders :
          c.lastGood.Folders[i].NeedItems >= 0 /\ c.lastGood.Folders[i].NeedBytes >= 0

\* the degraded copy of a snapshot collected when the completion of folder a
\* reported -4 items and -1024 bytes
C17_Witness ==
    /\ Quiet /\ hist.last = "fail" /\ ~c.snapshot.SourceOnline
    /\ c.snapshot.GeneratedAt = 4
    /\ UpstreamAt(4).dbCompletion[FolderA].NeedItems = -4
    /\ UpstreamAt(4).dbCompletion[FolderA].NeedBytes = -1024
    /\ \E i \in DOMAIN c.snapshot.Folders :
          /\ c.snapshot.Folders[i].ID = FolderA
          /\ c.snapshot.Folders[i].NeedItems = 0 /\ c.snapshot.Folders[i].NeedBytes = 0

\* the published folders
PublishedFolders == {c.snapshot.Folders[i] : i \in DOMAIN c.snapshot.Folders}
\* the folders of the configuration a cycle found
ConfiguredFolders(cy) == {cy.up.config.Folders[i] : i \in DOMAIN cy.up.config.Folders}

AllSpaces(s) == \A i \in 1..Len(s) : s[i] = Space
\* t is raw without its leading and trailing white space
IsTrimOf(t, raw) ==
    \E i \in 0..Len(raw) : \E j \in i..Len(raw) :
        /\ t = SubSeq(raw, i + 1, j)
        /\ AllSpaces(SubSeq(raw, 1, i)) /\ AllSpaces(SubSeq(raw, j + 1, Len(raw)))
        /\ t # <<>> => (t[1] # Space /\ t[Len(t)] # Space)

\* C18: the published state of a paused folder is paused, whatever its DB
\* status says; that of a folder that is not paused is the state of its DB
\* status without surrounding white space, or unknown when that is blank.
C18_FolderState ==
    \A p \in Procs :
        Built(p) =>
            \A folder \in ConfiguredFolders(cyc[p]) :
                \E pub \in PublishedFolders :
                    /\ pub.ID = folder.ID
                    /\ LET raw == cyc[p].up.dbStatus[folder.ID].State
                       IN  IF folder.Paused THEN pub.State = <<"paused">>
                           ELSE IF AllSpaces(raw) THEN pub.State = <<"unknown">>
                           ELSE IsTrimOf(pub.State, raw)

\* folder b is paused while its DB status says syncing, and folder a, not
\* paused, reports " error "
C18_Witness ==
    /\ Built("start")
    /\ \E folder \in ConfiguredFolders(cyc["start"]) :
          /\ folder.ID = FolderB /\ folder.Paused
          /\ cyc["start"].up.dbStatus[FolderB].State = <<"syncing">>
    /\ \E folder \in ConfiguredFolders(cyc["start"]) : folder.ID = FolderA /\ ~folder.Paused
    /\ cyc["start"].up.dbStatus[FolderA].State = <<Space, "error", Space>>
    /\ \E pub \in PublishedFolders : pub.ID = FolderA /\ pub.State = <<"error">>
    /\ \E pub \in PublishedFolders : pub.ID = FolderB /\ pub.State = <<"paused">>

\* C19: the published need_items and need_bytes of a folder are those of its
\* completion response (0 when that is negative), not those of its DB status,
\* whenever the two disagree.
C19_NeedFromCompletion ==
    \A p \in Procs :
        Built(p) =>
            \A folder \in ConfiguredFolders(cyc[p]) :
                \E pub \in PublishedFolders :
                    /\ pub.ID = folder.ID
                    /\ LET completion == cyc[p].up.dbCompletion[folder.ID]
                       IN  /\ pub.NeedItems = IF completion.NeedItems > 0 THEN completion.NeedItems ELSE 0
                           /\ pub.NeedBytes = IF completion.NeedBytes > 0 THEN completion.NeedBytes ELSE 0

\* the DB status of folder a needs 10 items and 2048 bytes, its completion 12
\* and 3072, which are published
C19_Witness ==
    /\ Built("start")
    /\ cyc["start"].up.dbStatus[FolderA].NeedTotalItems = 10
    /\ cyc["start"].up.dbStatus[FolderA].NeedBytes = 2048
    /\ cyc["start"].up.dbCompletion[FolderA].NeedItems = 12
    /\ cyc["start"].up.dbCompletion[FolderA].NeedBytes = 3072
    /\ \E pub \in PublishedFolders : pub.ID = FolderA /\ pub.NeedItems = 12 /\ pub.NeedBytes = 3072

\* C20: the published global_bytes of a folder is the larger of the
\* globalBytes of its DB status and of its completion response.
C20_GlobalBytes ==
    \A p \in Procs :
        Built(p) =>
            \A folder \in ConfiguredFolders(cyc[p]) :
                \E pub \in PublishedFolders :
                    /\ pub.ID = folder.ID
                    /\ LET fromStatus == cyc[p].up.dbStatus[folder.ID].GlobalBytes
                           fromCompletion == cyc[p].up.dbCompletion[folder.ID].GlobalBytes
                       IN  /\ pub.GlobalBytes >= fromStatus /\ pub.GlobalBytes >= fromCompletion
                           /\ pub.GlobalBytes \in {fromStatus, fromCompletion}

\* the completion of folder a says 8000 against 4096, that of folder b 50
\* against 100
C20_Witness ==
    /\ Built("start")
    /\ cyc["start"].up.dbStatus[FolderA].GlobalBytes = 4096
    /\ cyc["start"].up.dbCompletion[FolderA].GlobalBytes = 8000
    /\ cyc["start"].up.dbStatus[FolderB].GlobalBytes = 100
    /\ cyc["start"].up.dbCompletion[FolderB].GlobalBytes = 50
    /\ \E pub \in PublishedFolders : pub.ID = FolderA /\ pub.GlobalBytes = 8000
    /\ \E pub \in PublishedFolders : pub.ID = FolderB /\ pub.GlobalBytes = 100


\* C21: the completion_pct of a folder is present exactly when the completion
\* its completion response reports lies within 0 and 100, and is then that
\* value; below 0 or above 100 it is absent, not clamped.
C21_CompletionPct ==
    \A p \in Procs :
        Built(p) =>
            \A folder \in ConfiguredFolders(cyc[p]) :
                \E pub \in PublishedFolders :
                    /\ pub.ID = folder.ID
                    /\ LET value == cyc[p].up.dbCompletion[folder.ID].Completion
                       IN  /\ pub.CompletionPct.some <=> (0 <= value /\ value <= 100)
                           /\ pub.CompletionPct.some => pub.CompletionPct.val = value

\* folder a reports 101 and is published without a percentage, folder c
\* reports 100 and folder b 8, which are published
C21_Witness ==
    /\ Built("start")
    /\ cyc["start"].up.dbCompletion[FolderA].Completion = 101
    /\ cyc["start"].up.dbCompletion[FolderC].Completion = 100
    /\ \E pub \in PublishedFolders : pub.ID = FolderA /\ ~pub.CompletionPct.some
    /\ \E pub \in PublishedFolders : pub.ID = FolderC /\ pub.CompletionPct = Some(100)
    /\ \E pub \in PublishedFolders : pub.ID = FolderB /\ pub.CompletionPct = Some(8)


\* the published remotes
PublishedRemotes == {c.snapshot.Remotes[i] : i \in DOMAIN c.snapshot.Remotes}
\* how many published alerts have the given code, severity and subject
AlertCount(code, severity, id) ==
    Cardinality({i \in DOMAIN c.snapshot.Alerts :
                    /\ c.snapshot.Alerts[i].Code = code
                    /\ c.snapshot.Alerts[i].Severity = severity
                    /\ c.snapshot.Alerts[i].SubjectID = id})
\* how many published alerts have the given code, whatever their severity
AlertsCoded(code) ==
    Cardinality({i \in DOMAIN c.snapshot.Alerts : c.snapshot.Alerts[i].Code = code})

\* C22: a successful cycle publishes one critical REMOTE_DISCONNECTED alert
\* for every remote that is not connected; one critical FOLDER_ERROR alert and
\* no FOLDER_OUT_OF_SYNC alert for every folder in state error; for every
\* other folder one warn FOLDER_OUT_OF_SYNC alert when need_items > 0 or
\* need_bytes > 0 and none otherwise; and no other alert.
C22_Alerts ==
    \A p \in Procs :
        Built(p) =>
            /\ \A remote \in PublishedRemotes :
                  AlertCount("REMOTE_DISCONNECTED", "critical", remote.ID) =
                      IF remote.Connected THEN 0 ELSE 1
            /\ \A folder \in PublishedFolders :
                  /\ AlertCount("FOLDER_ERROR", "critical", folder.ID) =
                        IF folder.State = <<"error">> THEN 1 ELSE 0
                  /\ AlertCount("FOLDER_OUT_OF_SYNC", "warn", folder.ID) =
                        IF /\ folder.State # <<"error">>
                           /\ (folder.NeedItems > 0 \/ folder.NeedBytes > 0)
                        THEN 1 ELSE 0
            /\ AlertsCoded("REMOTE_DISCONNECTED") =
                  Cardinality({remote \in PublishedRemotes : ~remote.Connected})
            /\ AlertsCoded("FOLDER_ERROR") =
                  Cardinality({folder \in PublishedFolders : folder.State = <<"error">>})
            /\ AlertsCoded("FOLDER_OUT_OF_SYNC") =
                  Cardinality({folder \in PublishedFolders :
                                  /\ folder.State # <<"error">>
                                  /\ (folder.NeedItems > 0 \/ folder.NeedBytes > 0)})
            /\ Len(c.snapshot.Alerts) = AlertsCoded("REMOTE_DISCONNECTED")
                                        + AlertsCoded("FOLDER_ERROR") + AlertsCoded("FOLDER_OUT_OF_SYNC")

\* folder a is in error and needs 12 items, folder c needs 3, folder b
\* nothing; remote R1 is connected and remote R2 is not: three alerts
C22_Witness ==
    /\ Built("start")
    /\ \E folder \in PublishedFolders :
          folder.ID = FolderA /\ folder.State = <<"error">> /\ folder.NeedItems = 12
    /\ \E folder \in PublishedFolders :
          folder.ID = FolderC /\ folder.State = <<"scanning">> /\ folder.NeedItems = 3
    /\ \E folder \in PublishedFolders : folder.ID = FolderB /\ folder.NeedItems = 0
    /\ \E remote \in PublishedRemotes : remote.ID = Remote1 /\ remote.Connected
    /\ \E remote \in PublishedRemotes : remote.ID = Remote2 /\ ~remote.Connected
    /\ Len(c.snapshot.Alerts) = 3


\* the devices of the configuration a cycle found
ConfiguredDevices(cy) == {cy.up.config.Devices[i] : i \in DOMAIN cy.up.config.Devices}

\* C23: every configured device other than the local one appears exactly once
\* in remotes and the local device does not appear; a configured remote that
\* the connections map does not list appears with connected false and has a
\* REMOTE_DISCONNECTED alert.
C23_Remotes ==
    \A p \in Procs :
        Built(p) =>
            /\ \A device \in ConfiguredDevices(cyc[p]) :
                  Cardinality({i \in DOMAIN c.snapshot.Remotes :
                                  c.snapshot.Remotes[i].ID = device.DeviceID}) =
                      IF device.DeviceID = cyc[p].up.status.MyID THEN 0 ELSE 1
            /\ \A remote \in PublishedRemotes :
                  \E device \in ConfiguredDevices(cyc[p]) : device.DeviceID = remote.ID
            /\ \A remote \in PublishedRemotes :
                  remote.ID \notin DOMAIN cyc[p].up.connections.Connections =>
                      /\ ~remote.Connected
                      /\ AlertCount("REMOTE_DISCONNECTED", "critical", remote.ID) = 1

\* the local device is configured between the two remotes, and remote R2 has
\* no entry in the connections map
C23_Witness ==
    /\ Built("start")
    /\ cyc["start"].up.config.Devices[2].DeviceID = LocalID
    /\ cyc["start"].up.status.MyID = LocalID
    /\ Remote2 \notin DOMAIN cyc["start"].up.connections.Connections
    /\ Len(c.snapshot.Remotes) = 2
    /\ \E remote \in PublishedRemotes : remote.ID = Remote2 /\ ~remote.Connected


\* refresh p has collected, at the time of the successful refresh before it,
\* the payloads that refresh found
Rerun(p) ==
    /\ Built(p)
    /\ hist.last = "ok"
    /\ cyc[p].at = hist.ok.val.GeneratedAt
    /\ ConnectionsOf(cyc[p]).Total = hist.seen

\* C24 as stated: a collection that finds the payloads of the one before it,
\* at the same timestamp, yields the same snapshot, transfer rates included.
C24_Original ==
    \A p \in Procs : Rerun(p) => c.snapshot = hist.ok.val

\* C24, amended: such a collection yields the same folders, remotes and alerts
\* and the same device but for its transfer rates, which are the rates the
\* upstream reports (no time has elapsed since the stored sample); so the
\* snapshots are identical unless the first collection derived non-zero
\* rates from the counters.
C24_Rerun ==
    \A p \in Procs :
        Rerun(p) =>
            LET first == hist.ok.val
                total == ConnectionsOf(cyc[p]).Total
            IN  /\ c.snapshot.Folders = first.Folders
                /\ c.snapshot.Remotes = first.Remotes
                /\ c.snapshot.Alerts = first.Alerts
                /\ c.snapshot.GeneratedAt = first.GeneratedAt
                /\ [c.snapshot.Device EXCEPT !.DownloadBPS = first.Device.DownloadBPS,
                                             !.UploadBPS = first.Device.UploadBPS] = first.Device
                /\ IsQuotient(c.snapshot.Device.DownloadBPS, total.BitsPerSecondIn, 8)
                /\ IsQuotient(c.snapshot.Device.UploadBPS, total.BitsPerSecondOut, 8)
                /\ ( /\ IsQuotient(first.Device.DownloadBPS, total.BitsPerSecondIn, 8)
                     /\ IsQuotient(first.Device.UploadBPS, total.BitsPerSecondOut, 8) )
                   => c.snapshot = first

\* the first collection derived 6000 bytes per second, the second one at the
\* same timestamp publishes 0
C24_Witness ==
    \E p \in Procs :
        /\ Rerun(p)
        /\ hist.ok.val.Device.DownloadBPS = [n |-> 6000, d |-> 1]
        /\ c.snapshot.Device.DownloadBPS = [n |-> 0, d |-> 1]


\* refresh p is inside collect: between upstream calls, or computing rates,
\* or (with its last call) normalizing the snapshot
Collecting(p) == cyc[p].pc \in {"collect", "rates"}

\* C29: while a refresh makes its upstream calls and builds its snapshot, on
\* the way to success or to failure, it neither holds nor waits for the write
\* lock, so that Snapshot() and Ready() can take the read lock: a reader is
\* kept out only by a refresh that has left collect.
C29_LockOnlyToPublish ==
    /\ \A p \in Procs :
          Collecting(p) => (mu.writer # p /\ mu.pending # p /\ ReaderMayEnter)
    /\ ~ReaderMayEnter =>
          \E p \in Procs :
              /\ p \in {mu.writer, mu.pending}
              /\ cyc[p].pc \in {"okWait", "errWait", "errBranch", "wSnap1", "wSnap2",
                                 "wLastGood", "wHas", "wHasGood", "unlock"}
    /\ \A p \in Procs :
          cyc[p].pc \in {"okLock", "okWait"} => cyc[p].snap = Healthy(collect(cyc[p]), cyc[p].at)

\* a call of Snapshot() copies the published snapshot while the loop's
\* refresh makes the last upstream call of a later cycle
C29_Witness ==
    /\ cyc["loop"].pc = "collect" /\ cyc["loop"].k = LastCall(cyc["loop"])
    /\ rd["r1"].pc = "copy1"
    /\ c.hasSnapshot


\* the configuration a cycle found, its folders and its devices listed in
\* the order of their ids
ListedById(cy) ==
    LET folders == cy.up.config.Folders
        devices == cy.up.config.Devices
        byId(n, id(_)) == CHOOSE f \in Perms(n) :
                              \A i \in 1..(n - 1) : StrLess(id(f[i]), id(f[i + 1]))
        folderId(i) == folders[i].ID
        deviceId(i) == devices[i].DeviceID
        folderOrder == byId(Len(folders), folderId)
        deviceOrder == byId(Len(devices), deviceId)
    IN  [cy EXCEPT !.up.config =
            [Devices |-> [i \in 1..Len(devices) |-> devices[deviceOrder[i]]],
             Folders |-> [i \in 1..Len(folders) |-> folders[folderOrder[i]]]]]

\* C30: the published folders and remotes do not depend on the order in
\* which the configuration lists the folders and the devices: they are the
\* ones published for the same folders and devices listed in the order of
\* their ids, also when two folders share a label.
C30_OrderIndependent ==
    \A p \in Procs :
        Built(p) =>
            /\ c.snapshot.Folders = collect(ListedById(cyc[p])).Folders
            /\ c.snapshot.Remotes = collect(ListedById(cyc[p])).Remotes


-----------------------------------------------------------------------------
(* The client alone: calls of getJSON with allowed and other paths *)

InitClient ==
    /\ InitCollector
    /\ \E baseOK \in BOOLEAN : client = NewClient(baseOK)
    /\ api = IdleApi
    /\ conf = NotLoaded(DefaultEnv)
    /\ demo = NewDemoCollector

ClientCalls == \E path \in ClientPaths : GetJSON(path)
ClientDoReturns == \E outcome \in DoOutcomes : DoReturns(outcome)

NextClient == ClientCalls \/ ClientDoReturns
SpecClient == InitClient /\ [][NextClient]_vars

\* README, "Read-only guard": the endpoints the backend allow-lists
ReadmeEndpoints ==
    {"/rest/system/status", "/rest/system/version", "/rest/system/connections",
     "/rest/stats/device", "/rest/stats/folder", "/rest/config",
     "/rest/db/status", "/rest/db/completion"}

\* whether err.Error() says the path is not allowed
SaysNotAllowed(err) ==
    /\ err.some
    /\ \E i \in 1..Len(err.val) : err.val[i] = " is not allowed in read-only mode"

\* C25: a call of getJSON with a path that is not one of the eight
\* allow-listed endpoint paths returns a "not allowed" error and adds no request
\* to those sent; every request sent so far uses GET on an allow-listed path
C25_ReadOnlyGuard ==
    [][ /\ Cardinality(ReadmeEndpoints) = 8
        /\ \A req \in client'.sent : req.Method = "GET" /\ req.Path \in ReadmeEndpoints
        /\ (client.pc = "idle" /\ client' # client /\ client'.path \notin ReadmeEndpoints)
             => /\ client'.pc = "idle"
                /\ SaysNotAllowed(client'.err)
                /\ client'.sent = client.sent ]_vars

\* a path outside the allow-list has just been refused, after requests were sent
C25_Witness ==
    /\ client.path = "/rest/system/restart"
    /\ SaysNotAllowed(client.err)
    /\ \E req \in client.sent : req.Path = "/rest/db/status" /\ req.Query = <<<<"folder", "docs">>>>


-----------------------------------------------------------------------------
(* The HTTP API over the collector, served while Start runs its refresh *)

ApiRequest == \E method \in ApiMethods, path \in ApiPaths : ApiServes(method, path)

NextApi ==
    \/ UpstreamFlips
    \/ StartRefresh
    \/ UpstreamCall("start")
    \/ ComputeRates("start")
    \/ LockRequest("start")
    \/ LockAcquire("start")
    \/ ErrBranch("start")
    \/ WriteSnapshotHead("start")
    \/ WriteSnapshotTail("start")
    \/ WriteLastGood("start")
    \/ WriteHasSnapshot("start")
    \/ WriteHasLastGood("start")
    \/ Unlock("start")
    \/ ApiRequest
    \/ ApiCallsReader
    \/ ReaderProceeds
    \/ ApiResponds

SpecApi == Init /\ [][NextApi]_vars

\* a response is written in this step
ResponseWritten == api'.pc = "idle" /\ api' # api

\* C26: a GET of /api/v1/dashboard is answered 503 exactly when
\* Snapshot() reported unavailable and 200 otherwise; a GET of /readyz is
\* answered 503 exactly when Ready() returned false and 200 otherwise; a request
\* with another method to /api/v1/dashboard, /healthz or /readyz is answered 405
\* and the reader is not called for it
C26_StatusMapping ==
    [][ ResponseWritten =>
          /\ (api'.method # "GET" /\ api'.path \in {"/api/v1/dashboard", "/healthz", "/readyz"})
               => /\ api'.status = 405
                  /\ ~api'.consulted
                  /\ rd' = rd /\ mu' = mu
          /\ (api'.method = "GET" /\ api'.path = "/api/v1/dashboard")
               => /\ rd["r1"].pc = "ret"
                  /\ (api'.status = 503) = ~rd["r1"].ok
                  /\ (api'.status = 200) = rd["r1"].ok
          /\ (api'.method = "GET" /\ api'.path = "/readyz")
               => /\ rd["r1"].pc = "readyRet"
                  /\ (api'.status = 503) = ~rd["r1"].ok
                  /\ (api'.status = 200) = rd["r1"].ok ]_vars

\* a GET of /api/v1/dashboard has been answered 503 and the collector has
\* published since
C26_Witness ==
    /\ api.pc = "idle" /\ api.method = "GET" /\ api.path = "/api/v1/dashboard"
    /\ api.status = 503
    /\ c.hasSnapshot


-----------------------------------------------------------------------------
(* Load in each environment *)

InitConfig ==
    /\ InitCollector
    /\ client = IdleClient
    /\ api = IdleApi
    /\ \E env \in Envs : conf = NotLoaded(env)
    /\ demo = NewDemoCollector

NextConfig == RunLoads
SpecConfig == InitConfig /\ [][NextConfig]_vars

\* Load has returned without error
Loaded == conf.loaded /\ ~conf.err

\* an API key can be had from SYNCTHING_API_KEY or from the file SYNCTHING_API_KEY_FILE names
KeyAvailable(env) ==
    \/ ~AllSpaces(env.APIKey)
    \/ \E path \in DOMAIN SecretFiles :
          /\ IsTrimOf(path, env.APIKeyFile)
          /\ ~AllSpaces(SecretFiles[path])

\* C27 as stated: demo mode exactly when SYNCTHING_BASE_URL is empty, then
\* with empty STBaseURL and STAPIKey; with the base URL set, Load fails unless an
\* API key is available; a Config returned without error has PollInterval > 0
C27_Original ==
    /\ Loaded => /\ conf.cfg.DemoMode = (conf.env.BaseURL = EmptyStr)
                 /\ conf.cfg.DemoMode => conf.cfg.STBaseURL = EmptyStr /\ conf.cfg.STAPIKey = EmptyStr
                 /\ conf.cfg.PollInterval > 0
    /\ (conf.loaded /\ conf.env.BaseURL # EmptyStr /\ ~KeyAvailable(conf.env)) => conf.err

\* C27: a Load that returns without error has demo mode enabled exactly when
\* SYNCTHING_BASE_URL is empty or only white space, then with empty STBaseURL and
\* STAPIKey whatever the key variables hold; when the base URL holds more than
\* white space, Load fails unless an API key is available; a Config returned
\* without error has PollInterval > 0
C27_Load ==
    /\ Loaded => /\ conf.cfg.DemoMode = AllSpaces(conf.env.BaseURL)
                 /\ conf.cfg.DemoMode => conf.cfg.STBaseURL = EmptyStr /\ conf.cfg.STAPIKey = EmptyStr
                 /\ conf.cfg.PollInterval > 0
    /\ (conf.loaded /\ ~AllSpaces(conf.env.BaseURL) /\ ~KeyAvailable(conf.env)) => conf.err

\* Load has enabled demo mode for a base URL of white space, with a key set
\* and the poll interval given in plain seconds
C27_Witness ==
    /\ Loaded /\ conf.cfg.DemoMode
    /\ conf.env.BaseURL = <<Space, Space>>
    /\ conf.env.APIKey = <<"demo-key">>
    /\ conf.env.PollInterval = <<"2">> /\ conf.cfg.PollInterval = 2000


-----------------------------------------------------------------------------
(* The demo collector: Start, the ticks of its loop, and a reader *)

NextDemo == Tick \/ Cancel \/ DemoStart \/ DemoLoopTick \/ DemoSnapshot
SpecDemo == Init /\ [][NextDemo]_vars

\* the number of elements of a sequence that satisfy a test
CountOf(seq, Test(_)) == Cardinality({i \in 1..Len(seq) : Test(seq[i])})

NeedsSync(folder) == folder.NeedItems > 0 \/ folder.NeedBytes > 0
HasLocalChanges(folder) == folder.LocalChangesItems > 0
InError(folder) == folder.State = <<"error">>
IsPaused(folder) == folder.State = <<"paused">>
IsDisconnected(remote) == ~remote.Connected

\* what the test of the demo collector asks of a snapshot
Rich(snap) ==
    /\ snap.SourceOnline
    /\ Len(snap.Folders) = 10
    /\ Len(snap.Remotes) = 4
    /\ CountOf(snap.Folders, NeedsSync) >= 1
    /\ CountOf(snap.Folders, HasLocalChanges) >= 1
    /\ CountOf(snap.Folders, InError) >= 1
    /\ CountOf(snap.Folders, IsPaused) >= 1
    /\ CountOf(snap.Remotes, IsDisconnected) >= 1
    /\ Len(snap.Alerts) > 0

\* C28: every snapshot the demo collector has stored, and every snapshot its
\* Snapshot() returns, has source_online true, 10 folders, 4 remotes, a folder
\* with need, a folder with local changes, a folder in error, a paused folder, a
\* disconnected remote and at least one alert
C28_RichSnapshot ==
    /\ demo.ready => Rich(demo.snapshot)
    /\ demo.ok => Rich(demo.out)

\* the snapshot of tick 11 is stored, in which the syncing folders with an even
\* index wait for a scan, and a reader holds a stale copy of an earlier one
C28_Witness ==
    /\ demo.ready /\ demo.tick = 12
    /\ demo.snapshot.Folders[3].State = <<"scan-waiting">>
    /\ demo.ok /\ demo.out.Stale /\ demo.out.GeneratedAt < demo.snapshot.GeneratedAt


\* the folder states the data model names
NamedStates ==
    {<<"idle">>, <<"syncing">>, <<"scan-waiting">>, <<"paused">>, <<"error">>, <<"unknown">>}

\* C31 as stated: every folder of a snapshot a successful cycle publishes has
\* one of the states idle, syncing, scan-waiting, paused, error, unknown,
\* whatever state string the DB-status endpoint reports.
C31_ClosedStates ==
    \A p \in Procs :
        Built(p) => \A pub \in PublishedFolders : pub.State \in NamedStates

\* C31 as amended: every published folder state is non-blank and has no
\* surrounding white space, and a state that is not one of the six named ones
\* is the state string the DB-status endpoint reports for that folder, which
\* is not paused, without its surrounding white space.
C31_StatesPassThrough ==
    \A p \in Procs :
        Built(p) =>
            \A pub \in PublishedFolders :
                /\ pub.State # EmptyStr
                /\ pub.State[1] # Space /\ pub.State[Len(pub.State)] # Space
                /\ pub.State \notin NamedStates =>
                      \E folder \in ConfiguredFolders(cyc[p]) :
                          /\ folder.ID = pub.ID /\ ~folder.Paused
                          /\ IsTrimOf(pub.State, cyc[p].up.dbStatus[folder.ID].State)

\* folder c reports scanning and is published as scanning, while folder a
\* reports " error " and is published as error
C31_Witness ==
    /\ Built("start")
    /\ cyc["start"].up.dbStatus[FolderC].State = <<"scanning">>
    /\ \E pub \in PublishedFolders : pub.ID = FolderC /\ pub.State = <<"scanning">>
    /\ cyc["start"].up.dbStatus[FolderA].State = <<Space, "error", Space>>
    /\ \E pub \in PublishedFolders : pub.ID = FolderA /\ pub.State = <<"error">>


-----------------------------------------------------------------------------
(* The alerts and the health ratios as functions of the responses: Start's
   refresh over upstreams in which both remotes may be disconnected and up to
   three folders raise an alert, and over upstreams whose system status
   reports any of a few listener maps, discovery maps, discovery method
   counts and discovery error maps *)

FolderNeedsOfB == {0, 5}
ErrorStatesOfA == {<<Space, "error", Space>>, S("idle")}

\* upstreams that differ in the order of the configuration, in whether remote
\* R1 is connected (it is at time 2, not at time 1; R2 never is), in whether
\* folder a is in error and in whether folder b needs items
OrderWorlds ==
    {[UpstreamAt(t) EXCEPT
        !.config = [Devices |-> [i \in 1..3 |-> UpstreamAt(t).config.Devices[devicePerm[i]]],
                    Folders |-> [i \in 1..3 |-> ConfigFolders(FALSE, <<"B">>)[folderPerm[i]]]],
        !.dbStatus = (FolderB :> DBStatus(S("syncing"), 100, 5, 10, 0)) @@
                     (FolderC :> DBStatus(S("scanning"), 300, 1, 0, 0)) @@
                     (FolderA :> DBStatus(stateA, 4096, 20, 2048, 3)),
        !.dbCompletion = (FolderB :> DBCompletion(8, 0, needB, 50)) @@
                         (FolderC :> DBCompletion(100, -1, 3, 300)) @@
                         (FolderA :> DBCompletion(90, 0, 0, 8000))] :
       t \in {1, 2}, devicePerm \in Perms(3), folderPerm \in Perms(3),
       stateA \in ErrorStatesOfA, needB \in FolderNeedsOfB}

\* map[string]ServiceStatus as /rest/system/status may report it: no entry,
\* entries without error, with a blank error, with an error
ListenerMaps ==
    {<<>>,
     (S("tcp") :> [Error |-> None]) @@ (S("quic") :> [Error |-> Some(S("bind failed"))]),
     (S("tcp") :> [Error |-> Some(<<Space>>)]) @@ (S("quic") :> [Error |-> None])
        @@ (S("relay") :> [Error |-> Some(EmptyStr)]),
     (S("tcp") :> [Error |-> Some(S("bind failed"))])}
DiscoveryMaps ==
    {<<>>,
     (S("global") :> [Error |-> None]) @@ (S("local") :> [Error |-> Some(<<Space>>)]),
     (S("global") :> [Error |-> Some(S("timeout"))])}
\* discoveryMethods, an int of the response
MethodCounts == {-1, 0, 2, 3}
\* discoveryErrors: none, one, more than any of the method counts
DiscoveryErrorMaps ==
    {<<>>,
     (S("global") :> S("timeout")),
     (S("global") :> S("timeout")) @@ (S("local") :> S("timeout"))
        @@ (S("v4") :> S("timeout")) @@ (S("v6") :> S("timeout"))}

\* upstreams that differ in the health the system status reports
HealthWorlds ==
    {[UpstreamAt(2) EXCEPT
        !.status = [@ EXCEPT !.ConnectionServiceStatus = listeners,
                             !.DiscoveryStatus = discovery,
                             !.DiscoveryMethods = methods,
                             !.DiscoveryErrors = errors]] :
       listeners \in ListenerMaps, discovery \in DiscoveryMaps,
       methods \in MethodCounts, errors \in DiscoveryErrorMaps}

DeriveWorlds == OrderWorlds \cup HealthWorlds

\* Start calls refresh, which will find one of these upstreams
StartRefreshDeriving ==
    /\ cyc["start"].pc = "init"
    /\ \E u \in DeriveWorlds :
          cyc' = [cyc EXCEPT !["start"] = [IdleCycle("collect") EXCEPT !.at = now, !.up = u, !.k = 1]]
    /\ UNCHANGED <<now, reachable, cancelled, c, mu, ticker, rd, hist, others>>

NextDerive ==
    \/ StartRefreshDeriving
    \/ UpstreamCall("start")
    \/ ComputeRates("start")
    \/ LockRequest("start")
    \/ LockAcquire("start")
    \/ WriteSnapshotHead("start")
    \/ WriteSnapshotTail("start")
    \/ WriteLastGood("start")
    \/ WriteHasSnapshot("start")
    \/ WriteHasLastGood("start")
    \/ Unlock("start")

SpecDerive == InitRates /\ [][NextDerive]_vars

\* the position in a list of the entry with the given id
PosOf(list, id) == CHOOSE k \in DOMAIN list : list[k].ID = id
IsRemoteAlert(a) == a.Code = "REMOTE_DISCONNECTED"

\* C32: in the snapshot of a successful cycle every REMOTE_DISCONNECTED alert
\* comes before every folder alert, the remote alerts are in the order of
\* their remotes in the remotes list, and the folder alerts are in the order
\* of their folders in the folders list.
C32_AlertOrder ==
    \A p \in Procs :
        Built(p) =>
            LET alerts == c.snapshot.Alerts
            IN  \A i, j \in DOMAIN alerts :
                    i < j =>
                        /\ ~(~IsRemoteAlert(alerts[i]) /\ IsRemoteAlert(alerts[j]))
                        /\ (IsRemoteAlert(alerts[i]) /\ IsRemoteAlert(alerts[j])) =>
                              PosOf(c.snapshot.Remotes, alerts[i].SubjectID)
                                  < PosOf(c.snapshot.Remotes, alerts[j].SubjectID)
                        /\ (~IsRemoteAlert(alerts[i]) /\ ~IsRemoteAlert(alerts[j])) =>
                              PosOf(c.snapshot.Folders, alerts[i].SubjectID)
                                  < PosOf(c.snapshot.Folders, alerts[j].SubjectID)

\* the configuration lists R2 (blank name, listed as R2) before R1 (named B)
\* and b before a before c (labelled B); both remotes are disconnected and
\* all three folders raise an alert: the alerts are those of R1, R2, c, a, b,
\* the order of the sorted lists
C32_Witness ==
    /\ Built("start")
    /\ Len(cyc["start"].up.config.Folders) = 3
    /\ [i \in 1..3 |-> cyc["start"].up.config.Devices[i].DeviceID] = <<Remote2, LocalID, Remote1>>
    /\ [i \in 1..3 |-> cyc["start"].up.config.Folders[i].ID] = <<FolderB, FolderA, FolderC>>
    /\ Len(c.snapshot.Alerts) = 5
    /\ [i \in 1..5 |-> c.snapshot.Alerts[i].SubjectID]
          = <<Remote1, Remote2, FolderC, FolderA, FolderB>>
    /\ [i \in 1..5 |-> c.snapshot.Alerts[i].Code]
          = <<"REMOTE_DISCONNECTED", "REMOTE_DISCONNECTED", "FOLDER_OUT_OF_SYNC",
              "FOLDER_ERROR", "FOLDER_OUT_OF_SYNC">>


\* the entries of a status map whose error is absent or blank
OkEntries(statusByKey) ==
    {k \in DOMAIN statusByKey :
        ~statusByKey[k].Error.some \/ AllSpaces(statusByKey[k].Error.val)}
Min(a, b) == IF a < b THEN a ELSE b

\* C33: the health ratios of the published device satisfy 0 <= ok <= total.
\* For the listeners, total is the number of entries of the status map and ok
\* the number of entries whose error is absent or blank.  For discovery the
\* same holds of the per-method map when it is not empty; otherwise (ok,
\* total) is (methods - min(errors, methods), methods) when methods > 0 and
\* (0, 0) when methods <= 0.
C33_HealthRatios ==
    \A p \in Procs :
        Built(p) =>
            LET status == cyc[p].up.status
                dev == c.snapshot.Device
                errors == Cardinality(DOMAIN status.DiscoveryErrors)
            IN  /\ 0 <= dev.ListenersOK /\ dev.ListenersOK <= dev.ListenersTotal
                /\ 0 <= dev.DiscoveryOK /\ dev.DiscoveryOK <= dev.DiscoveryTotal
                /\ dev.ListenersTotal = Cardinality(DOMAIN status.ConnectionServiceStatus)
                /\ dev.ListenersOK = Cardinality(OkEntries(status.ConnectionServiceStatus))
                /\ IF DOMAIN status.DiscoveryStatus # {}
                   THEN /\ dev.DiscoveryTotal = Cardinality(DOMAIN status.DiscoveryStatus)
                        /\ dev.DiscoveryOK = Cardinality(OkEntries(status.DiscoveryStatus))
                   ELSE IF status.DiscoveryMethods > 0
                        THEN /\ dev.DiscoveryTotal = status.DiscoveryMethods
                             /\ dev.DiscoveryOK = status.DiscoveryMethods
                                                    - Min(errors, status.DiscoveryMethods)
                        ELSE dev.DiscoveryOK = 0 /\ dev.DiscoveryTotal = 0

\* no per-method discovery map, two discovery methods and four discovery
\* errors: 0 of 2; one listener of two reports a non-blank error: 1 of 2
C33_Witness ==
    /\ Built("start")
    /\ cyc["start"].up.status.DiscoveryStatus = <<>>
    /\ cyc["start"].up.status.DiscoveryMethods = 2
    /\ Cardinality(DOMAIN cyc["start"].up.status.DiscoveryErrors) = 4
    /\ c.snapshot.Device.DiscoveryOK = 0 /\ c.snapshot.Device.DiscoveryTotal = 2
    /\ Cardinality(DOMAIN cyc["start"].up.status.ConnectionServiceStatus) = 2
    /\ c.snapshot.Device.ListenersOK = 1 /\ c.snapshot.Device.ListenersTotal = 2


-----------------------------------------------------------------------------
(* Cancellation alone: the upstream stays reachable, so that a call fails
   only for the cancellation of the context its request is bound to *)

NextCancel == Cancel \/ TickerFires \/ Collector

SpecCancel == InitRates /\ [][NextCancel]_vars

\* C34 as stated: while the upstream is reachable no cycle fails and no
\* degraded snapshot is published, whether or not the context has been
\* cancelled: cancellation by itself fails no call and no cycle.
C34_Original ==
    reachable =>
        /\ \A p \in Procs : ~cyc[p].err.some
        /\ (Quiet /\ c.hasSnapshot) => c.snapshot.SourceOnline

\* C34 as amended: a cycle in flight ends only by the return of its own
\* refresh, after it has published, also when the context is cancelled
\* meanwhile, and the loop takes the cancellation only in its select; but
\* with the upstream reachable an upstream call fails exactly when the
\* context is cancelled by the time it ends, and a cycle that failed so has
\* published a degraded snapshot when its refresh returns.
C34_CancelledCycle ==
    [][\A p \in Procs :
          /\ (cyc[p].pc = "collect" /\ cyc'[p] # cyc[p]) =>
                (cyc'[p].err.some <=> cancelled)
          /\ (InCycle(p) /\ ~InCycle(p)') => cyc[p].pc = "unlock"
          /\ (InCycle(p) /\ ~InCycle(p)') => cyc'[p].pc = AfterRefresh(p)
          /\ cyc'[p].pc = "exited" => (cyc[p].pc \in {"select", "exited"} /\ cancelled)
          /\ (cyc[p].pc = "unlock" /\ cyc[p].err.some) =>
                (c.hasSnapshot /\ ~c.snapshot.SourceOnline /\ c.snapshot.SourceError.some)
      ]_vars

\* the loop's cycle began before the context was cancelled, its call failed
\* for the cancellation, and its refresh is about to return having replaced
\* the healthy snapshot of Start's refresh by its stale copy
C34_Witness ==
    /\ reachable /\ cancelled
    /\ hist.last = "ok"
    /\ cyc["loop"].pc = "unlock" /\ cyc["loop"].err.some
    /\ c.hasLastGood /\ c.lastGood.SourceOnline
    /\ ~c.snapshot.SourceOnline /\ c.snapshot.Stale


-----------------------------------------------------------------------------
(* The demo collector against the ordering of the live collector *)

\* the characters of the words the demo seeds are written with
Spell(word) ==
    CASE word = "Pictures" -> <<"P", "i", "c", "t", "u", "r", "e", "s">>
      [] word = "Documents" -> <<"D", "o", "c", "u", "m", "e", "n", "t", "s">>
      [] word = "Media" -> <<"M", "e", "d", "i", "a">>
      [] word = "Music" -> <<"M", "u", "s", "i", "c">>
      [] word = "Videos" -> <<"V", "i", "d", "e", "o", "s">>
      [] word = "Downloads" -> <<"D", "o", "w", "n", "l", "o", "a", "d", "s">>
      [] word = "Projects" -> <<"P", "r", "o", "j", "e", "c", "t", "s">>
      [] word = "Backups" -> <<"B", "a", "c", "k", "u", "p", "s">>
      [] word = "Books" -> <<"B", "o", "o", "k", "s">>
      [] word = "Taxes" -> <<"T", "a", "x", "e", "s">>
      [] word = "Attic" -> <<"A", "t", "t", "i", "c">>
      [] word = "Desk" -> <<"D", "e", "s", "k">>
      [] word = "Backpack" -> <<"B", "a", "c", "k", "p", "a", "c", "k">>
      [] word = "Keyring" -> <<"K", "e", "y", "r", "i", "n", "g">>
      [] OTHER -> <<word>>

\* a string as its characters
RECURSIVE Chars(_)
Chars(s) == IF s = <<>> THEN <<>> ELSE Spell(Head(s)) \o Chars(Tail(s))

\* the lists are in non-decreasing order of label and of name, and no folder
\* alert comes before a REMOTE_DISCONNECTED alert
Ordered(snap) ==
    /\ \A i \in 1..(Len(snap.Folders) - 1) :
          ~StrLess(Chars(snap.Folders[i + 1].Label), Chars(snap.Folders[i].Label))
    /\ \A i \in 1..(Len(snap.Remotes) - 1) :
          ~StrLess(Chars(snap.Remotes[i + 1].Name), Chars(snap.Remotes[i].Name))
    /\ \A i, j \in DOMAIN snap.Alerts :
          i < j => ~(~IsRemoteAlert(snap.Alerts[i]) /\ IsRemoteAlert(snap.Alerts[j]))

\* C35: every snapshot the demo collector publishes has its folders in
\* non-decreasing order of label, its remotes in non-decreasing order of name,
\* and its REMOTE_DISCONNECTED alerts before its folder alerts.
C35_DemoOrdered ==
    /\ demo.ready => Ordered(demo.snapshot)
    /\ demo.ok => Ordered(demo.out)


\* the refresh of p has failed after a success and is about to return
FailedAfterSuccess(p) == cyc[p].pc = "unlock" /\ cyc[p].err.some /\ hist.ok.some

\* C36: after a successful refresh followed by any number n >= 1 of failed
\* ones, the last-known-good snapshot is the one that success stored, alerts
\* included, and the current snapshot has exactly one SOURCE_UNREACHABLE
\* alert: that alert followed by the alerts of the last-known-good snapshot.
C36_NoAccumulation ==
    /\ \A p \in Procs :
          FailedAfterSuccess(p) =>
              /\ c.lastGood = hist.ok.val
              /\ AlertsCoded("SOURCE_UNREACHABLE") = 1
              /\ c.snapshot.Alerts = <<SourceUnreachable>> \o hist.ok.val.Alerts
    /\ (Quiet /\ hist.last = "fail" /\ hist.ok.some) =>
          /\ c.lastGood = hist.ok.val
          /\ c.lastGood.Alerts = hist.ok.val.Alerts
          /\ NoSourceUnreachable(c.lastGood)
          /\ AlertsCoded("SOURCE_UNREACHABLE") = 1
          /\ Len(c.snapshot.Alerts) = Len(hist.ok.val.Alerts) + 1

\* the second failed refresh in a row after a success whose snapshot has
\* two alerts is about to return
C36_Witness ==
    \E p \in Procs :
        /\ FailedAfterSuccess(p)
        /\ hist.last = "fail"
        /\ Len(hist.ok.val.Alerts) >= 2
        /\ Len(c.snapshot.Alerts) = Len(hist.ok.val.Alerts) + 1


\* C37: hasLastGood never goes back to false and implies hasSnapshot; once a
\* refresh has succeeded, a failed refresh publishes the device, folders,
\* remotes and generated_at of the last-known-good snapshot, never the
\* minimal empty snapshot; and a current snapshot with source_online true is
\* the last-known-good snapshot.
C37_LastGood ==
    /\ [][c.hasLastGood => c'.hasLastGood]_vars
    /\ [](c.hasLastGood => c.hasSnapshot)
    /\ [](hist.ok.some => c.hasLastGood)
    /\ [](\A p \in Procs :
            FailedAfterSuccess(p) =>
                /\ c.snapshot.Device = c.lastGood.Device
                /\ c.snapshot.Folders = c.lastGood.Folders
                /\ c.snapshot.Remotes = c.lastGood.Remotes
                /\ c.snapshot.GeneratedAt = c.lastGood.GeneratedAt
                /\ c.snapshot.Device # ZeroDevice /\ c.snapshot.Folders # <<>>
                /\ ~c.snapshot.SourceOnline)
    /\ []((Quiet /\ c.hasSnapshot /\ c.snapshot.SourceOnline) =>
            (c.hasLastGood /\ c.snapshot = c.lastGood))

\* a refresh fails after a success, at a later time than that success and
\* after another failure, and has published the last-good data
C37_Witness ==
    \E p \in Procs :
        /\ FailedAfterSuccess(p)
        /\ hist.last = "fail"
        /\ cyc[p].at > c.lastGood.GeneratedAt
        /\ Len(c.snapshot.Folders) = 2 /\ c.snapshot.Folders = c.lastGood.Folders


\* Start has returned to its caller
StartReturned == cyc["start"].pc = "returned"

\* C38: once Start has returned a refresh has completed, successful or not,
\* and a snapshot is stored; every call of Ready() that returns from then on
\* returns true and every call of Snapshot() reports available.
C38_StartSynchronous ==
    StartReturned =>
        /\ hist.last # "none"
        /\ c.hasSnapshot
        /\ \A r \in Readers :
              /\ rd[r].pc = "readyRet" => rd[r].ok
              /\ Returning(r) => (rd[r].ok /\ rd[r].out # ZeroSnapshot)

\* the upstream was unreachable during Start's refresh, no refresh has
\* succeeded, and a Snapshot() called after Start returned reports the
\* cold-start snapshot as available
C38_Witness ==
    \E r \in Readers :
        /\ StartReturned
        /\ hist.last = "fail" /\ ~hist.ok.some
        /\ Returning(r) /\ rd[r].ok
        /\ ~rd[r].out.SourceOnline /\ rd[r].out.Folders = <<>>


\* C39: the clock never goes back, and the generated_at of the current
\* snapshot never decreases, whatever refreshes succeed and fail, those that
\* fail before the first success included.
C39_GeneratedAtMonotonic ==
    [][now' >= now => c'.snapshot.GeneratedAt >= c.snapshot.GeneratedAt]_vars

\* the first successful refresh, at a later time than the failed one that
\* published the cold-start snapshot before it, is about to return
C39_Witness ==
    \E p \in Procs :
        /\ cyc[p].pc = "unlock" /\ ~cyc[p].err.some
        /\ hist.last = "fail" /\ ~hist.ok.some
        /\ cyc[p].at > 1
        /\ c.snapshot.GeneratedAt = cyc[p].at


\* C40: no step of Snapshot() or Ready() changes the stored snapshot, its
\* stale flag, the last-known-good snapshot, the rate sample or the two
\* flags; and the snapshot a call of Snapshot() returns differs from the
\* stored one at most in the stale flag, so that two calls with no refresh in
\* between return snapshots that differ at most in that flag.
C40_ReadsDoNotWrite ==
    /\ [][rd' # rd => c' = c]_vars
    /\ [](\A r \in Readers :
            (Returning(r) /\ rd[r].ok) =>
                \A f \in DOMAIN c.snapshot \ {"Stale"} : rd[r].out[f] = c.snapshot[f])

\* between two refreshes of the loop a Snapshot() returns the healthy
\* snapshot as stale, because it has aged, while the stored snapshot and the
\* last-known-good one keep the flag false
C40_Witness ==
    \E r \in Readers :
        /\ Returning(r) /\ rd[r].ok /\ rd[r].out.Stale
        /\ cyc["loop"].pc = "select" /\ hist.last = "ok"
        /\ c.snapshot.SourceOnline /\ ~c.snapshot.Stale
        /\ c.lastGood = c.snapshot /\ ~c.lastGood.Stale

=============================================================================
